---- MODULE Spec2Model ----
(***************************************************************************)
(* Real-time collaborative app: the Whiteboard component (stroke model),   *)
(* the Chat component (message log, presence), the socket channel between  *)
(* each client and the relay server, and the relay server's fan-out.       *)
(*                                                                         *)
(* Every React event handler is one atomic action: the state it sets is    *)
(* committed before the next handler runs.  Date.now() timestamps that the *)
(* code never reads back (Stroke.timestamp, Message.timestamp) are left    *)
(* out of the records.                                                     *)
(***************************************************************************)
EXTENDS Integers, Sequences, FiniteSets, TLC

\* ------------------------------------------------------------------ bounds
Clients == {"A", "B", "C"}
Points == {<<0, 0>>, <<5, 5>>}
Colors == {"#000000", "#ff0000"}
Widths == {2, 5}
Names == {"Ann", "Bob"}
Contents == {"hello"}

\* strokes one client may start (stroke ids are <<client, n>>)
MaxStrokes == 2
\* points one local stroke may hold
MaxPoints == 2
\* user gestures (mouse, buttons) in one run
MaxOps == 4
\* events one direction of one connection may hold
MaxQueue == 2
MaxChatOps == 2
MaxSockets == 3
MaxSent == 1
MaxEvents == 2
MaxChatEvents == 3
MaxLog == 2
MaxText == 3
MaxSubmits == 2
MaxCalls == 2
\* payloads on their way to one Whiteboard client (any wire payload)
MaxWire == 2
MaxEmits == 3
MaxPresence == 4
MaxAttempts == 2

\* the number of persisted messages the server sends a joining client (small,
\* so that the store can hold more than one snapshot carries)
RecentN == 1

\* initial brush of the Whiteboard component
InitialColor == "#000000"
InitialWidth == 2

VARIABLES
  \* Whiteboard component state, per client
  strokes,        \* Map<strokeId, Stroke>: a function whose domain is the ids held
  currentStroke,  \* Stroke | null: <<>> or <<stroke>>
  isDrawing,
  currentColor,
  brushWidth,
  nextStroke,     \* stands for the fresh `stroke_${Date.now()}_${random}` id
  \* connection channel and relay server
  conn,           \* "connecting" | "open" | "closed"
  uplink,         \* events emitted by the client, not yet handled by the server
  downlink,       \* events the server sent to the client, not yet handled
  \* Chat component state, per client
  messages,       \* Message[]
  users,          \* User[]
  currentUser,    \* User | null: <<>> or <<user>>
  isConnected,    \* useSocket's flag
  isUploading,    \* useFileUpload's flag (the instance Chat holds)
  uploads,        \* uploadFile requests awaiting their response
  deleting,       \* delete requests awaiting their response: [message, request]
  msgSeq,         \* stands for the fresh `${Date.now()}_${random}` id suffix
  \* relay server and History Store
  session,        \* per connection: the identity join_chat recorded, <<>> or <<id>>
  store,          \* the persisted chat messages, oldest first
  fileSeq,        \* stands for the fresh file_id of the upload endpoint
  records,        \* the join / leave records persisted in the History Store
  ops,            \* gestures so far (bounds the exploration)
  \* bookkeeping for the properties (never read by an action's guard or effect)
  last,           \* the operation that led to this state
  rlog,           \* per client: start/draw events handled since its last clear
  emitted,        \* per stroke id: what its drawer has emitted for it
  gotStart,       \* per client: stroke ids whose start event it has handled
  hist,           \* per client: the last two operations on its chat state
  results,        \* per client: the upload results its uploads resolved with
  held,           \* per client: messages it held when another client's delete of
                  \* them was acknowledged, and whether it was hydrated then
  \* SocketService (one instance)
  socket,         \* its `socket` field: 0 for null, else the id of a socket
  sockets,        \* every socket io() has created: id |-> [state, sent]
  called,         \* bookkeeping: what the last connect() call saw and returned
  \* out-of-band calls
  alerts,         \* per client: the texts of the alert() dialogs shown, oldest first
  api,            \* services/api: the calls made so far, oldest first
  \* MessageInput (one instance)
  input,          \* [newMessage, disabled, sent, submits]: its text state, its
                  \* disabled prop, the arguments of its onSendMessage calls so
                  \* far, and how many times its form was submitted
  \* relay server, suspended handlers
  pending,        \* per connection: <<>> or <<the handling that awaits the
                  \* History Store>>
  \* the components mounted on the SocketService singleton
  hooks,          \* per useSocket instance: [mounted, socket, isConnected] and
                  \* the currentUser of the component that holds it
  emits           \* bookkeeping: per socket, the events emitted on it, oldest first

wbVars == <<strokes, currentStroke, isDrawing, currentColor, brushWidth, nextStroke>>
netVars == <<conn, uplink, downlink>>
chatVars == <<messages, users, currentUser, isConnected, isUploading, uploads,
              deleting, msgSeq>>
serverVars == <<session, store, fileSeq, records>>
wbGhost == <<rlog, emitted, gotStart>>
chatGhost == <<hist, results, held>>
svcVars == <<socket, sockets, called>>
oobVars == <<alerts, api>>
formVars == <<input>>
awaitVars == <<pending>>
hookVars == <<hooks, emits>>
\* everything the Whiteboard side never touches
chatSide == <<chatVars, serverVars, chatGhost, svcVars, oobVars, formVars, awaitVars, hookVars>>
vars == <<wbVars, netVars, chatVars, serverVars, ops, last, wbGhost, chatGhost, svcVars,
          oobVars, formVars, awaitVars, hookVars>>

\* ----------------------------------------------------------------- helpers
NoOp == [op |-> "init", c |-> "none"]

Owner(s) == s[1]

\* Map.set(k, v)
MapSet(m, k, v) == (k :> v) @@ m

EmptyMap == << >>

\* the recipients of a broadcast from connection c: every other open connection
Others(c) == {d \in Clients : d # c /\ conn[d] = "open"}

\* a relay that also echoes the event to its sender
BroadcastToAll(dl, c, e) ==
  [d \in Clients |-> IF conn[d] = "open" THEN Append(dl[d], e) ELSE dl[d]]

\* a relay that puts the event ahead of what a connection has still to receive
BroadcastFront(dl, c, e) ==
  [d \in Clients |-> IF d \in Others(c) THEN <<e>> \o dl[d] ELSE dl[d]]

\* the relay server's handling of a 'drawing' or 'clear' event e of connection
\* c, emit(event, data, skip_sid = sender): what it makes of the downlinks dl
Broadcast(dl, c, e) ==
  [d \in Clients |-> IF d \in Others(c) THEN Append(dl[d], e) ELSE dl[d]]

\* room for one more event from c (the queues are bounded by MaxQueue)
CanEmit(c) ==
  IF conn[c] = "open" THEN \A d \in Others(c) : Len(downlink[d]) < MaxQueue
                      ELSE Len(uplink[c]) < MaxQueue

\* socket.emit of a whiteboard event by a handler that leaves the downlinks as
\* dl.  On an open socket the event reaches the server, which relays it; the
\* relay commutes with every step of every client, so it is taken together
\* with the emit.  While the socket is still connecting, socket.io keeps the
\* event in its send buffer.
Emit(c, e, dl) ==
  /\ CanEmit(c)
  /\ IF conn[c] = "open"
       THEN downlink' = Broadcast(dl, c, e) /\ uplink' = uplink
       ELSE downlink' = dl /\ uplink' = [uplink EXCEPT ![c] = Append(@, e)]

\* JavaScript truthiness of an optional string / number field
HasTruthy(e, f, falsy) == f \in DOMAIN e /\ e[f] # falsy

\* --------------------------------------------------------------------- Init
\* the two useSocket hooks of the repository: hooks/useSocket.ts, which Chat
\* imports, and the variant that reads newSocket.connected on mount and does
\* not disconnect in its cleanup
HookNamed == "useSocket"
HookVariant == "useSocketVariant"
Hooks == {HookNamed, HookVariant}

\* a component that is not mounted: useState(null), useState(false)
Unmounted ==
  [mounted |-> FALSE, socket |-> 0, isConnected |-> FALSE, currentUser |-> FALSE,
   attempts |-> 0]

\* MessageInput as mounted: useState(''), disabled = false by default
InputMounted == [newMessage |-> << >>, disabled |-> FALSE, sent |-> << >>, submits |-> 0]

\* the Whiteboard component as mounted
WhiteboardMounted ==
  /\ strokes = [c \in Clients |-> EmptyMap]
  /\ currentStroke = [c \in Clients |-> << >>]
  /\ isDrawing = [c \in Clients |-> FALSE]
  /\ currentColor = [c \in Clients |-> InitialColor]
  /\ brushWidth = [c \in Clients |-> InitialWidth]
  /\ nextStroke = [c \in Clients |-> 1]
  /\ rlog = [c \in Clients |-> << >>]
  /\ emitted = EmptyMap
  /\ gotStart = [c \in Clients |-> {}]

\* the Chat component's state before its effect has run
ChatIdle ==
  /\ messages = [c \in Clients |-> << >>]
  /\ users = [c \in Clients |-> << >>]
  /\ isUploading = [c \in Clients |-> FALSE]
  /\ uploads = [c \in Clients |-> 0]
  /\ deleting = [c \in Clients |-> {}]
  /\ msgSeq = [c \in Clients |-> 1]
  /\ store = << >>
  /\ fileSeq = 1
  /\ held = [c \in Clients |-> {}]
  /\ results = [c \in Clients |-> << >>]
  /\ alerts = [c \in Clients |-> << >>]
  /\ api = << >>
  /\ input = InputMounted
  /\ pending = [c \in Clients |-> << >>]
  /\ hooks = [h \in Hooks |-> Unmounted]
  /\ emits = [i \in 1..MaxSockets |-> << >>]

\* the SocketService singleton as constructed: socket = null
ServiceIdle ==
  /\ socket = 0
  /\ sockets = << >>
  /\ called = << >>

\* Every client shows the Whiteboard tab.  A and B have connected, C's socket
\* is still connecting.
InitWB ==
  /\ WhiteboardMounted
  /\ ChatIdle
  /\ ServiceIdle
  /\ currentUser = [c \in Clients |-> << >>]
  /\ isConnected = [c \in Clients |-> FALSE]
  /\ session = [c \in Clients |-> << >>]
  /\ records = {}
  /\ hist = [c \in Clients |-> << >>]
  /\ conn = [c \in Clients |-> IF c = "C" THEN "connecting" ELSE "open"]
  /\ uplink = [c \in Clients |-> << >>]
  /\ downlink = [c \in Clients |-> << >>]
  /\ ops = 0
  /\ last = NoOp

\* ------------------------------------------------------ Whiteboard gestures
Mounted(c) == conn[c] # "closed"

\* onMouseDown / onTouchStart
startDrawing(c, point) ==
  /\ Mounted(c)
  /\ ops < MaxOps
  /\ nextStroke[c] <= MaxStrokes
  /\ LET strokeId == <<c, nextStroke[c]>>
         newStroke == [id |-> strokeId, points |-> <<point>>,
                       color |-> currentColor[c], width |-> brushWidth[c]]
         ev == [ev |-> "drawing", type |-> "start", strokeId |-> strokeId,
                point |-> point, color |-> currentColor[c], width |-> brushWidth[c]]
     IN /\ currentStroke' = [currentStroke EXCEPT ![c] = <<newStroke>>]
        /\ isDrawing' = [isDrawing EXCEPT ![c] = TRUE]
        /\ Emit(c, ev, downlink)
        /\ emitted' = MapSet(emitted, strokeId,
                             [points |-> <<point>>, color |-> ev.color, width |-> ev.width])
        /\ last' = [op |-> "startDrawing", c |-> c, e |-> ev]
  /\ nextStroke' = [nextStroke EXCEPT ![c] = @ + 1]
  /\ ops' = ops + 1
  /\ UNCHANGED <<strokes, currentColor, brushWidth, conn, rlog, gotStart>>
  /\ UNCHANGED chatSide

\* onMouseMove / onTouchMove
draw(c, point) ==
  /\ Mounted(c)
  /\ ops < MaxOps
  /\ isDrawing[c] /\ currentStroke[c] # << >>
  /\ Len(currentStroke[c][1].points) < MaxPoints
  /\ LET cur == currentStroke[c][1]
         ev == [ev |-> "drawing", type |-> "draw", strokeId |-> cur.id, point |-> point]
     IN /\ currentStroke' = [currentStroke EXCEPT
                               ![c] = <<[cur EXCEPT !.points = Append(@, point)]>>]
        /\ Emit(c, ev, downlink)
        /\ emitted' = [emitted EXCEPT ![cur.id].points = Append(@, point)]
        /\ last' = [op |-> "draw", c |-> c, e |-> ev]
  /\ ops' = ops + 1
  /\ UNCHANGED <<strokes, isDrawing, currentColor, brushWidth, nextStroke,
                 conn, rlog, gotStart>>
  /\ UNCHANGED chatSide

\* onMouseUp / onMouseLeave / onTouchEnd
stopDrawing(c) ==
  /\ Mounted(c)
  /\ ops < MaxOps
  /\ isDrawing[c] /\ currentStroke[c] # << >>
  /\ LET cur == currentStroke[c][1]
         ev == [ev |-> "drawing", type |-> "end", strokeId |-> cur.id]
     IN /\ isDrawing' = [isDrawing EXCEPT ![c] = FALSE]
        /\ strokes' = [strokes EXCEPT ![c] = MapSet(@, cur.id, cur)]
        /\ currentStroke' = [currentStroke EXCEPT ![c] = << >>]
        /\ Emit(c, ev, downlink)
        /\ last' = [op |-> "stopDrawing", c |-> c, e |-> ev]
  /\ ops' = ops + 1
  /\ UNCHANGED <<currentColor, brushWidth, nextStroke, conn,
                 rlog, emitted, gotStart>>
  /\ UNCHANGED chatSide

\* clearCanvas that leaves the stroke in progress alone
clearCanvasKeepCurrent(c, dl) ==
  /\ strokes' = [strokes EXCEPT ![c] = EmptyMap]
  /\ currentStroke' = currentStroke
  /\ Emit(c, [ev |-> "clear"], dl)
  /\ rlog' = [rlog EXCEPT ![c] = << >>]
  /\ UNCHANGED <<isDrawing, currentColor, brushWidth, nextStroke, emitted, gotStart>>

\* the body of clearCanvas: it runs for the Clear button and for a received
\* 'clear' alike, and emits 'clear' in both cases
clearCanvas(c, dl) ==
  /\ strokes' = [strokes EXCEPT ![c] = EmptyMap]
  /\ currentStroke' = [currentStroke EXCEPT ![c] = << >>]
  /\ Emit(c, [ev |-> "clear"], dl)
  /\ rlog' = [rlog EXCEPT ![c] = << >>]
  /\ UNCHANGED <<isDrawing, currentColor, brushWidth, nextStroke, emitted, gotStart>>

\* Clear button
ClickClear(c) ==
  /\ Mounted(c)
  /\ ops < MaxOps
  /\ clearCanvas(c, downlink)
  /\ last' = [op |-> "clickClear", c |-> c, e |-> [ev |-> "clear"],
              hadStrokes |-> strokes[c] # EmptyMap, hadCurrent |-> currentStroke[c] # << >>]
  /\ ops' = ops + 1
  /\ UNCHANGED conn
  /\ UNCHANGED chatSide

\* colour picker
setCurrentColor(c, color) ==
  /\ Mounted(c)
  /\ ops < MaxOps
  /\ color # currentColor[c]
  /\ currentColor' = [currentColor EXCEPT ![c] = color]
  /\ last' = [op |-> "setCurrentColor", c |-> c]
  /\ ops' = ops + 1
  /\ UNCHANGED <<strokes, currentStroke, isDrawing, brushWidth, nextStroke,
                 netVars, rlog, emitted, gotStart>>
  /\ UNCHANGED chatSide

\* width slider
setBrushWidth(c, width) ==
  /\ Mounted(c)
  /\ ops < MaxOps
  /\ width # brushWidth[c]
  /\ brushWidth' = [brushWidth EXCEPT ![c] = width]
  /\ last' = [op |-> "setBrushWidth", c |-> c]
  /\ ops' = ops + 1
  /\ UNCHANGED <<strokes, currentStroke, isDrawing, currentColor, nextStroke,
                 netVars, rlog, emitted, gotStart>>
  /\ UNCHANGED chatSide

\* --------------------------------------------- Whiteboard, received events
\* startUpdater that keeps a stroke already held under the id
startUpdaterKeep(prev, data) ==
  IF data.strokeId \in DOMAIN prev THEN prev
  ELSE MapSet(prev, data.strokeId,
              [id |-> data.strokeId, points |-> <<data.point>>,
               color |-> data.color, width |-> data.width])

\* startUpdater with the stroke's first point forgotten
startUpdaterNoPoint(prev, data) ==
  MapSet(prev, data.strokeId,
         [id |-> data.strokeId, points |-> << >>,
          color |-> data.color, width |-> data.width])

\* the updater of setStrokes in case 'start'
startUpdater(prev, data) ==
  MapSet(prev, data.strokeId,
         [id |-> data.strokeId,
          points |-> IF "point" \in DOMAIN data THEN <<data.point>> ELSE << >>,
          color |-> data.color, width |-> data.width])

\* drawUpdater that creates the stroke when the id is unknown
drawUpdaterCreate(prev, data) ==
  IF data.strokeId \in DOMAIN prev
    THEN [prev EXCEPT ![data.strokeId].points = Append(@, data.point)]
    ELSE MapSet(prev, data.strokeId,
                [id |-> data.strokeId, points |-> <<data.point>>,
                 color |-> InitialColor, width |-> InitialWidth])

\* drawUpdater that replaces the stroke's points by the new point
drawUpdaterReplace(prev, data) ==
  IF data.strokeId \in DOMAIN prev
    THEN [prev EXCEPT ![data.strokeId].points = <<data.point>>]
    ELSE prev

\* drawUpdater that appends the point to every stroke held
drawUpdaterAll(prev, data) ==
  IF data.strokeId \in DOMAIN prev
    THEN [t \in DOMAIN prev |-> [prev[t] EXCEPT !.points = Append(@, data.point)]]
    ELSE prev

\* drawUpdater with the new point put in front
drawUpdaterPrepend(prev, data) ==
  IF data.strokeId \in DOMAIN prev
    THEN [prev EXCEPT ![data.strokeId].points = <<data.point>> \o @]
    ELSE prev

\* the updater of setStrokes in case 'draw'
drawUpdater(prev, data) ==
  IF data.strokeId \in DOMAIN prev
    THEN [prev EXCEPT ![data.strokeId].points = Append(@, data.point)]
    ELSE prev

\* what handleRemoteDrawing leaves in the stroke map
remoteDrawing(prev, data) ==
  CASE data.type = "start" ->
         IF HasTruthy(data, "color", "") /\ HasTruthy(data, "width", 0)
           THEN startUpdater(prev, data) ELSE prev
    [] data.type = "draw" ->
         IF "point" \in DOMAIN data THEN drawUpdater(prev, data) ELSE prev
    [] OTHER -> prev

\* an event emitted with no payload: the listener is called with undefined and
\* `switch (data.type)` throws a TypeError before any state is set
undefinedPayload(data) == DOMAIN data = {"ev"}

\* socket.on('drawing', handleRemoteDrawing); the canvas ref is set for as
\* long as the component is mounted
handleRemoteDrawing(c) ==
  /\ conn[c] = "open"
  /\ downlink[c] # << >>
  /\ Head(downlink[c]).ev = "drawing"
  /\ LET data == Head(downlink[c])
     IN IF undefinedPayload(data)
          THEN /\ UNCHANGED <<strokes, rlog, gotStart>>
               /\ last' = [op |-> "remoteDrawing", c |-> c, e |-> data, threw |-> TRUE]
          ELSE /\ strokes' = [strokes EXCEPT ![c] = remoteDrawing(@, data)]
               /\ rlog' = [rlog EXCEPT ![c] = IF data.type \in {"start", "draw"}
                                                THEN Append(@, data) ELSE @]
               /\ gotStart' = [gotStart EXCEPT ![c] = IF data.type = "start"
                                                        THEN @ \cup {data.strokeId} ELSE @]
               /\ last' = [op |-> "remoteDrawing", c |-> c, e |-> data, threw |-> FALSE]
  /\ downlink' = [downlink EXCEPT ![c] = Tail(@)]
  /\ UNCHANGED <<currentStroke, isDrawing, currentColor, brushWidth, nextStroke,
                 conn, uplink, ops, emitted>>
  /\ UNCHANGED chatSide

\* socket.on('clear', () => clearCanvas())
onClear(c) ==
  /\ conn[c] = "open"
  /\ downlink[c] # << >>
  /\ Head(downlink[c]).ev = "clear"
  /\ clearCanvas(c, [downlink EXCEPT ![c] = Tail(@)])
  /\ last' = [op |-> "onClear", c |-> c, e |-> [ev |-> "clear"],
              hadStrokes |-> strokes[c] # EmptyMap, hadCurrent |-> currentStroke[c] # << >>]
  /\ UNCHANGED <<conn, ops>>
  /\ UNCHANGED chatSide

\* ---------------------------------------------------------------- connection
\* Append every event of the send buffer buf to the downlinks of the set to
RECURSIVE Flush(_, _, _)
Flush(dl, to, buf) ==
  IF buf = << >> THEN dl
  ELSE Flush([d \in Clients |-> IF d \in to THEN Append(dl[d], Head(buf)) ELSE dl[d]],
             to, Tail(buf))

\* the transport session is established: the server registers the connection
\* and the client sends what its send buffer holds
Connect(c) ==
  /\ conn[c] = "connecting"
  /\ conn' = [conn EXCEPT ![c] = "open"]
  /\ \A d \in Others(c) : Len(downlink[d]) + Len(uplink[c]) <= MaxQueue
  /\ downlink' = Flush(downlink, Others(c), uplink[c])
  /\ uplink' = [uplink EXCEPT ![c] = << >>]
  /\ last' = [op |-> "connect", c |-> c]
  /\ UNCHANGED <<wbVars, ops, rlog, emitted, gotStart>>
  /\ UNCHANGED chatSide

NextWB ==
  \/ \E c \in Clients, p \in Points : startDrawing(c, p)
  \/ \E c \in Clients, p \in Points : draw(c, p)
  \/ \E c \in Clients : stopDrawing(c)
  \/ \E c \in Clients : ClickClear(c)
  \/ \E c \in Clients, col \in Colors : setCurrentColor(c, col)
  \/ \E c \in Clients, w \in Widths : setBrushWidth(c, w)
  \/ \E c \in Clients : handleRemoteDrawing(c)
  \/ \E c \in Clients : onClear(c)
  \/ \E c \in Clients : Connect(c)

SpecWB == InitWB /\ [][NextWB]_vars

\* ------------------------------------------- handleRemoteDrawing, any input
\* the ids of another client's strokes
RemoteIds == {<<"B", n>> : n \in 1..MaxStrokes}

\* the drawing events a Whiteboard client emits
DrawingEvents ==
  {[ev |-> "drawing", type |-> "start", strokeId |-> s, point |-> p,
    color |-> col, width |-> w] :
     s \in RemoteIds, p \in Points, col \in Colors, w \in Widths}
  \cup {[ev |-> "drawing", type |-> "draw", strokeId |-> s, point |-> p] :
          s \in RemoteIds, p \in Points}
  \cup {[ev |-> "drawing", type |-> "end", strokeId |-> s] : s \in RemoteIds}

\* the sequences of up to n events
EventSeqs(n) == UNION {[1..k -> DrawingEvents] : k \in 0..n}

\* Client A has mounted the Whiteboard and connected, and any sequence of
\* drawing events is on its way to it: events in any order, a start repeated
\* for a known id or a draw for an unknown one included.
InitApply ==
  /\ WhiteboardMounted
  /\ ChatIdle
  /\ ServiceIdle
  /\ currentUser = [c \in Clients |-> << >>]
  /\ isConnected = [c \in Clients |-> FALSE]
  /\ session = [c \in Clients |-> << >>]
  /\ records = {}
  /\ hist = [c \in Clients |-> << >>]
  /\ conn = [c \in Clients |-> IF c = "A" THEN "open" ELSE "connecting"]
  /\ uplink = [c \in Clients |-> << >>]
  /\ \E q \in EventSeqs(MaxEvents) :
       downlink = [c \in Clients |-> IF c = "A" THEN q ELSE << >>]
  /\ ops = 0
  /\ last = NoOp

NextApply == \E c \in Clients : handleRemoteDrawing(c)

SpecApply == InitApply /\ [][NextApply]_vars

\* ------------------------------------- handleRemoteDrawing, any wire payload
\* What the wire can carry to socket.on('drawing'): the relay forwards the
\* payload unchanged, and interface DrawingEvent makes point, color and width
\* optional; a payload can also be absent altogether.
Optional(field, values) == {field :> v : v \in values} \cup {<< >>}

WireEvents ==
  {[ev |-> "drawing", type |-> "start", strokeId |-> s] @@ p @@ col @@ w :
     s \in RemoteIds, p \in Optional("point", {<<0, 0>>}),
     col \in Optional("color", {InitialColor, ""}),
     w \in Optional("width", {InitialWidth, 0})}
  \cup {[ev |-> "drawing", type |-> "draw", strokeId |-> s] @@ p :
          s \in RemoteIds, p \in Optional("point", {<<5, 5>>})}
  \cup {[ev |-> "drawing", type |-> "end", strokeId |-> s] : s \in RemoteIds}
  \cup {[ev |-> "drawing"]}

\* Client A has mounted the Whiteboard and connected, and any sequence of up
\* to MaxWire payloads is on its way to it.
InitWire ==
  /\ WhiteboardMounted
  /\ ChatIdle
  /\ ServiceIdle
  /\ currentUser = [c \in Clients |-> << >>]
  /\ isConnected = [c \in Clients |-> FALSE]
  /\ session = [c \in Clients |-> << >>]
  /\ records = {}
  /\ hist = [c \in Clients |-> << >>]
  /\ conn = [c \in Clients |-> IF c = "A" THEN "open" ELSE "connecting"]
  /\ uplink = [c \in Clients |-> << >>]
  /\ \E q \in UNION {[1..k -> WireEvents] : k \in 0..MaxWire} :
       downlink = [c \in Clients |-> IF c = "A" THEN q ELSE << >>]
  /\ ops = 0
  /\ last = NoOp

NextWire == \E c \in Clients : handleRemoteDrawing(c)

SpecWire == InitWire /\ [][NextWire]_vars

\* ===================================================================== Chat
\* the state-changing operations on a client's chat state, newest last, at
\* most two
Push(h, rec) == IF Len(h) < 2 THEN Append(h, rec) ELSE <<h[2], rec>>

Record(c, op, arg) ==
  hist' = [hist EXCEPT ![c] = Push(@, [op |-> op, arg |-> arg, msgs |-> messages[c],
                                       users |-> users[c]])]

\* the identity Chat's mount effect generates: the id is unique per client,
\* the name is a random pick that two clients can share
Identity(c, name) == [id |-> c, name |-> name, isOnline |-> TRUE]

\* what Chat's mount effect emits for the identity u
JoinChat(u) == [ev |-> "join_chat", userId |-> u.id, userName |-> u.name]

\* Every client shows the Chat tab: useSocket's effect has created the socket
\* and Chat's effect has picked the identity, emitted join_chat (kept in the
\* send buffer until the socket connects) and registered the handlers.  A came
\* first: it has connected, joined and applied its (empty) recent_messages.
\* B and C are still connecting.  C may show the Whiteboard tab instead: then
\* its connection is the Whiteboard's, which has no chat identity, emits no
\* join_chat and has no listener for the chat events.
InitChat ==
  /\ WhiteboardMounted
  /\ ChatIdle
  /\ ServiceIdle
  /\ \E n \in Names \cup {""} :
       currentUser = [c \in Clients |->
                        IF c # "C" THEN <<Identity(c, "Ann")>>
                        ELSE IF n = "" THEN << >> ELSE <<Identity(c, n)>>]
  /\ conn = [c \in Clients |-> IF c = "A" THEN "open" ELSE "connecting"]
  /\ isConnected = [c \in Clients |-> c = "A"]
  /\ session = [c \in Clients |->
                  IF c = "A" THEN <<[id |-> c, name |-> currentUser[c][1].name]>> ELSE << >>]
  /\ uplink = [c \in Clients |->
                 IF c = "A" \/ currentUser[c] = << >>
                   THEN << >> ELSE <<JoinChat(currentUser[c][1])>>]
  /\ records = {[kind |-> "join", id |-> "A", name |-> currentUser["A"][1].name]}
  /\ downlink = [c \in Clients |-> << >>]
  /\ hist = [c \in Clients |->
               IF c = "A" THEN <<[op |-> "recent_messages", arg |-> << >>,
                                  msgs |-> << >>, users |-> << >>]>>
               ELSE << >>]
  /\ ops = 0
  /\ last = NoOp

\* socketService.sendMessage / joinChat: emit on the service's socket
EmitChat(c, e) ==
  /\ Len(uplink[c]) < MaxQueue
  /\ uplink' = [uplink EXCEPT ![c] = Append(@, e)]

\* the system message handleUserJoined / handleUserLeft synthesize; the id
\* `system_${Date.now()}` is never compared with a chat message's id
SystemMessage(name, what) ==
  [id |-> <<"system">>, type |-> "system", content |-> <<name, what>>, sender |-> "system"]

\* the text message handleSendMessage builds
TextMessage(c, content) ==
  [id |-> <<"msg", c, msgSeq[c]>>, type |-> "text", content |-> content,
   sender |-> currentUser[c][1].name]

\* FileMessage with fileId and downloadUrl left out
FileMessageNoId(c, r) ==
  [id |-> <<"file", c, msgSeq[c]>>, type |-> "file", content |-> r.download_url,
   sender |-> currentUser[c][1].name, fileName |-> r.original_name,
   fileSize |-> r.size, fileType |-> r.content_type]

\* the file message handleFileUpload builds from the upload result r
FileMessage(c, r) ==
  [id |-> <<"file", c, msgSeq[c]>>, type |-> "file", content |-> r.download_url,
   sender |-> currentUser[c][1].name, fileName |-> r.original_name,
   fileSize |-> r.size, fileType |-> r.content_type,
   downloadUrl |-> r.download_url, fileId |-> r.file_id]

\* the body the upload endpoint answers with
UploadResult(n) ==
  [file_id |-> <<"f", n>>, download_url |-> <<"https://x/", n>>,
   original_name |-> "a.pdf", size |-> 100, content_type |-> "application/pdf"]

\* the 'connect' event: useSocket's handleConnect
ConnectChat(c) ==
  /\ currentUser[c] # << >>
  /\ conn[c] = "connecting"
  /\ conn' = [conn EXCEPT ![c] = "open"]
  /\ isConnected' = [isConnected EXCEPT ![c] = TRUE]
  /\ last' = last
  /\ UNCHANGED <<wbVars, wbGhost, svcVars, oobVars, formVars, awaitVars, hookVars,
                 uplink, downlink, messages,
                 users, currentUser,
                 isUploading, uploads, deleting, msgSeq, serverVars, ops, chatGhost>>

\* MessageInput submit -> handleSendMessage
handleSendMessage(c, content) ==
  /\ conn[c] = "open" /\ isConnected[c]
  /\ ops < MaxChatOps
  /\ currentUser[c] # << >>
  /\ EmitChat(c, [ev |-> "chat_message", msg |-> TextMessage(c, content)])
  /\ msgSeq' = [msgSeq EXCEPT ![c] = @ + 1]
  /\ last' = last
  /\ ops' = ops + 1
  /\ UNCHANGED <<wbVars, wbGhost, svcVars, oobVars, formVars, awaitVars, hookVars,
                 conn, downlink, messages, users,
                 currentUser,
                 isConnected, isUploading, uploads, deleting, serverVars, chatGhost>>

\* MessageInput file picker -> handleFileUpload, up to the awaited uploadFile
handleFileUpload(c) ==
  /\ conn[c] = "open" /\ isConnected[c]
  /\ ops < MaxChatOps
  /\ currentUser[c] # << >>
  /\ isUploading' = [isUploading EXCEPT ![c] = TRUE]
  /\ uploads' = [uploads EXCEPT ![c] = @ + 1]
  /\ last' = last
  /\ ops' = ops + 1
  /\ UNCHANGED <<wbVars, wbGhost, svcVars, oobVars, formVars, awaitVars, hookVars,
                 netVars, messages, users, currentUser,
                 isConnected, deleting, msgSeq, serverVars, chatGhost>>

\* an upload without the finally block: the flag stays as it is
uploadNoFinally(c) == isUploading

\* useFileUpload.upload's finally block: setIsUploading(false)
uploadFinally(c) == [isUploading EXCEPT ![c] = FALSE]

\* the upload answered ok: handleFileUpload goes on after the await
uploadResolved(c) ==
  /\ conn[c] # "closed"
  /\ uploads[c] > 0
  /\ LET r == UploadResult(fileSeq)
         msg == FileMessage(c, r)
     IN /\ EmitChat(c, [ev |-> "chat_message", msg |-> msg])
        /\ results' = [results EXCEPT ![c] = Append(@, r)]
        /\ last' = last
  /\ uploads' = [uploads EXCEPT ![c] = @ - 1]
  /\ isUploading' = uploadFinally(c)
  /\ msgSeq' = [msgSeq EXCEPT ![c] = @ + 1]
  /\ fileSeq' = fileSeq + 1
  /\ UNCHANGED <<wbVars, wbGhost, svcVars, oobVars, formVars, awaitVars, hookVars,
                 conn, downlink, messages, users,
                 currentUser,
                 isConnected, deleting, session, store, records, ops, hist, held>>

\* the upload answered not ok: uploadFile throws, upload's finally resets the
\* flag, handleFileUpload's catch alerts
uploadRejected(c) ==
  /\ conn[c] # "closed"
  /\ uploads[c] > 0
  /\ uploads' = [uploads EXCEPT ![c] = @ - 1]
  /\ isUploading' = uploadFinally(c)
  /\ alerts' = [alerts EXCEPT ![c] = Append(@, "Failed to upload file. Please try again.")]
  /\ api' = api
  /\ last' = last
  /\ UNCHANGED <<formVars, awaitVars, hookVars,
                 wbVars, wbGhost, svcVars, netVars, messages, users, currentUser,
                 isConnected, deleting, msgSeq, serverVars, ops, chatGhost>>

\* a MessageItem that shows the delete button on every message
deleteOfferedOnAll(c, message) == TRUE

\* MessageItem: the delete button is rendered, and handleDelete calls onDelete,
\* when isCurrentUser && !isSystemMessage; the currentUser prop is the name
deleteOffered(c, message) ==
  /\ currentUser[c] # << >>
  /\ message.sender = currentUser[c][1].name
  /\ message.type # "system"

\* the api call handleDeleteMessage awaits for the message
deleteRequest(message) ==
  IF message.type = "file" /\ HasTruthy(message, "fileId", "")
    THEN [fn |-> "deleteFile", arg |-> message.fileId]
    ELSE [fn |-> "deleteMessage", arg |-> message.id]

\* MessageItem delete button -> handleDeleteMessage, confirmed, up to the
\* awaited deleteFile / deleteMessage
handleDeleteMessage(c, i) ==
  /\ conn[c] # "closed"
  /\ ops < MaxChatOps
  /\ i \in 1..Len(messages[c])
  /\ LET message == messages[c][i]
     IN /\ deleteOffered(c, message)
        /\ message.type # "system"
        /\ \A q \in deleting[c] : q.message # message
        /\ deleting' = [deleting EXCEPT
                          ![c] = @ \cup {[message |-> message,
                                          request |-> deleteRequest(message)]}]
        /\ last' = last
  /\ ops' = ops + 1
  /\ UNCHANGED <<wbVars, wbGhost, svcVars, oobVars, formVars, awaitVars, hookVars,
                 netVars, messages, users, currentUser,
                 isConnected, isUploading, uploads, msgSeq, serverVars, chatGhost>>

\* what DELETE /files/{file_id} or DELETE /messages/{message_id} leaves of the
\* persisted messages
deleteRecord(st, request) ==
  IF request.fn = "deleteFile"
    THEN SelectSeq(st, LAMBDA m : ~("fileId" \in DOMAIN m /\ m.fileId = request.arg))
    ELSE SelectSeq(st, LAMBDA m : m.id # request.arg)

\* the log after setMessages(prev => prev.filter(msg => msg.id !== message.id))
filterOut(prev, message) == SelectSeq(prev, LAMBDA msg : msg.id # message.id)

\* a delete whose acknowledgement filters the message out of every client's log
afterDeleteEverywhere(c, message) ==
  [b \in Clients |-> filterOut(messages[b], message)]

\* the logs after the acknowledged delete at c: only c's own setMessages runs
afterDelete(c, message) ==
  [messages EXCEPT ![c] = filterOut(@, message)]

Range(f) == {f[i] : i \in DOMAIN f}

\* no recent_messages snapshot is still to come for b
Hydrated(b) ==
  /\ \A i \in DOMAIN uplink[b] : uplink[b][i].ev # "join_chat"
  /\ \A i \in DOMAIN downlink[b] : downlink[b][i].ev # "recent_messages"

\* the delete request answered ok
deleteResolved(c, message) ==
  /\ conn[c] # "closed"
  /\ \E q \in deleting[c] :
       /\ q.message = message
       /\ deleting' = [deleting EXCEPT ![c] = @ \ {q}]
       /\ store' = deleteRecord(store, q.request)
  /\ messages' = afterDelete(c, message)
  /\ held' = [b \in Clients |->
       IF b = c THEN {h \in held[b] : h.msg.id # message.id}
       ELSE IF message \in Range(messages[b])
         THEN held[b] \cup {[msg |-> message, hydrated |-> Hydrated(b)]}
         ELSE held[b]]
  /\ Record(c, "deleteResolved", message)
  /\ last' = last
  /\ UNCHANGED <<wbVars, wbGhost, svcVars, oobVars, formVars, awaitVars, hookVars,
                 netVars, users, currentUser,
                 isConnected,
                 isUploading, uploads, msgSeq, session, fileSeq, records, ops, results>>

\* a handler that filters the message out before the request is answered
afterDeleteOptimistic(c, message) == afterDelete(c, message)

\* the logs after the failed delete at c: the catch block touches no state
afterDeleteFailed(c, message) == messages

\* the delete request answered not ok: the api call throws, the handler alerts
deleteRejected(c, message) ==
  /\ conn[c] # "closed"
  /\ deleting' = [deleting EXCEPT ![c] = {q \in @ : q.message # message}]
  /\ messages' = afterDeleteFailed(c, message)
  /\ alerts' = [alerts EXCEPT ![c] = Append(@, "Failed to delete message. Please try again.")]
  /\ api' = api
  /\ last' = last
  /\ UNCHANGED <<formVars, awaitVars, hookVars,
                 wbVars, wbGhost, svcVars, netVars, users, currentUser,
                 isConnected, isUploading, uploads, msgSeq, serverVars, ops, chatGhost>>

\* ------------------------------------------------------ Chat, received events
Receives(c, ev) ==
  /\ currentUser[c] # << >>
  /\ conn[c] = "open"
  /\ downlink[c] # << >>
  /\ Head(downlink[c]).ev = ev

Handled(c, op) ==
  /\ downlink' = [downlink EXCEPT ![c] = Tail(@)]
  /\ last' = last
  /\ UNCHANGED <<wbVars, wbGhost, svcVars, oobVars, formVars, awaitVars, hookVars,
                 conn, uplink, currentUser,
                 isConnected,
                 isUploading, uploads, deleting, msgSeq, serverVars, ops, results, held>>

\* a handleMessage that builds the longer log and returns the old one
messageUpdaterStale(prev, message) == prev

\* a handleMessage that skips a message whose id the log already holds
messageUpdaterDedup(prev, message) ==
  IF \E i \in DOMAIN prev : prev[i].id = message.id THEN prev ELSE Append(prev, message)

\* the updater of setMessages in handleMessage: [...prev, message]
messageUpdater(prev, message) == Append(prev, message)

\* socket.on('chat_message', handleMessage)
handleMessage(c) ==
  /\ Receives(c, "chat_message")
  /\ messages' = [messages EXCEPT ![c] = messageUpdater(@, Head(downlink[c]).msg)]
  /\ users' = users
  /\ Record(c, "chat_message", Head(downlink[c]).msg)
  /\ Handled(c, "chat_message")

\* a setUsers updater that appends every user that joins
joinedUpdaterAppend(prev, user) == Append(prev, user)

\* the updater of setUsers in handleUserJoined
joinedUpdater(prev, user) ==
  IF \E i \in 1..Len(prev) : prev[i].id = user.id
    THEN [i \in 1..Len(prev) |->
            IF prev[i].id = user.id
              THEN [id |-> prev[i].id, name |-> prev[i].name, isOnline |-> TRUE]
              ELSE prev[i]]
    ELSE Append(prev, user)

\* socket.on('user_joined', handleUserJoined)
handleUserJoined(c) ==
  /\ Receives(c, "user_joined")
  /\ LET user == Head(downlink[c]).user
     IN /\ users' = [users EXCEPT ![c] = joinedUpdater(@, user)]
        /\ messages' = [messages EXCEPT
                          ![c] = Append(@, SystemMessage(user.name, "joined the chat"))]
        /\ Record(c, "user_joined", user)
  /\ Handled(c, "user_joined")

\* leftUpdater that removes the user
leftUpdaterRemove(prev, user) == SelectSeq(prev, LAMBDA u : u.id # user.id)

\* the updater of setUsers in handleUserLeft
leftUpdater(prev, user) ==
  [i \in 1..Len(prev) |->
     IF prev[i].id = user.id
       THEN [id |-> prev[i].id, name |-> prev[i].name, isOnline |-> FALSE]
       ELSE prev[i]]

\* a handleUserLeft that treats every user as known
userExistsAlways(prev, user) == TRUE

\* prev.find(u => u.id === user.id) in handleUserLeft
userExists(prev, user) == \E i \in 1..Len(prev) : prev[i].id = user.id

\* socket.on('user_left', handleUserLeft)
handleUserLeft(c) ==
  /\ Receives(c, "user_left")
  /\ LET user == Head(downlink[c]).user
         known == userExists(users[c], user)
     IN /\ users' = [users EXCEPT ![c] = IF known THEN leftUpdater(@, user) ELSE @]
        /\ messages' = [messages EXCEPT
                          ![c] = IF known
                                   THEN Append(@, SystemMessage(user.name, "left the chat"))
                                   ELSE @]
        /\ Record(c, "user_left", user)
  /\ Handled(c, "user_left")

\* socket.on('users_list', handleUsersList): setUsers(usersList)
handleUsersList(c) ==
  /\ Receives(c, "users_list")
  /\ users' = [users EXCEPT ![c] = Head(downlink[c]).list]
  /\ messages' = messages
  /\ Record(c, "users_list", Head(downlink[c]).list)
  /\ Handled(c, "users_list")

\* handleRecentMessages that appends the snapshot to the log
recentMessagesAppend(prev, messagesList) == prev \o messagesList

\* setMessages(messagesList)
recentMessages(prev, messagesList) == messagesList

\* socket.on('recent_messages', handleRecentMessages)
handleRecentMessages(c) ==
  /\ Receives(c, "recent_messages")
  /\ messages' = [messages EXCEPT ![c] = recentMessages(@, Head(downlink[c]).list)]
  /\ users' = users
  /\ Record(c, "recent_messages", Head(downlink[c]).list)
  /\ Handled(c, "recent_messages")

\* ------------------------------------------------ Chat handlers, any input
\* text messages as other clients build them, with their timestamps
InMessages ==
  {[id |-> <<"msg", "B", n>>, type |-> "text", content |-> "hello",
    sender |-> "Bob", timestamp |-> t] : n \in 1..MaxChatOps, t \in 1..MaxChatOps}

\* the identities user_joined and user_left carry
InUsers == {[id |-> c, name |-> "Bob"] : c \in {"B", "C"}}

\* the lists a users_list event carries
InUsersLists ==
  {<< >>} \cup {<<[id |-> u.id, name |-> u.name, isOnline |-> TRUE]>> : u \in InUsers}

\* the chat events Chat registers a listener for
ChatEvents ==
  {[ev |-> "chat_message", msg |-> m] : m \in InMessages}
  \cup {[ev |-> "user_joined", user |-> u] : u \in InUsers}
  \cup {[ev |-> "user_left", user |-> u] : u \in InUsers}
  \cup {[ev |-> "recent_messages", list |-> l] :
          l \in {<< >>} \cup {<<m>> : m \in InMessages}}
  \cup {[ev |-> "users_list", list |-> l] : l \in InUsersLists}

\* Client A shows the Chat tab, has connected and joined, and any sequence of
\* chat events is on its way to it: a message repeated, timestamps out of
\* order, a user_left for an unknown user, a user_joined repeated or a
\* users_list included.
InitReceive ==
  /\ WhiteboardMounted
  /\ ChatIdle
  /\ ServiceIdle
  /\ currentUser = [c \in Clients |-> <<Identity(c, IF c = "A" THEN "Ann" ELSE "Bob")>>]
  /\ conn = [c \in Clients |-> IF c = "A" THEN "open" ELSE "connecting"]
  /\ isConnected = [c \in Clients |-> c = "A"]
  /\ session = [c \in Clients |->
                  IF c = "A" THEN <<[id |-> c, name |-> "Ann"]>> ELSE << >>]
  /\ records = {[kind |-> "join", id |-> "A", name |-> "Ann"]}
  /\ uplink = [c \in Clients |-> << >>]
  /\ \E q \in UNION {[1..k -> ChatEvents] : k \in 0..MaxChatEvents} :
       downlink = [c \in Clients |-> IF c = "A" THEN q ELSE << >>]
  /\ hist = [c \in Clients |-> << >>]
  /\ ops = 0
  /\ last = NoOp

NextReceive ==
  \/ \E c \in Clients : handleMessage(c)
  \/ \E c \in Clients : handleUserJoined(c)
  \/ \E c \in Clients : handleUserLeft(c)
  \/ \E c \in Clients : handleRecentMessages(c)
  \/ \E c \in Clients : handleUsersList(c)

SpecReceive == InitReceive /\ [][NextReceive]_vars

\* ---------------------------------------------------- relay server, chat side
\* the most recent n of the persisted messages, oldest first
LastN(st, n) == SubSeq(st, IF Len(st) > n THEN Len(st) - n + 1 ELSE 1, Len(st))

\* a join handling that sends user_joined to every open connection, the
\* joiner included
JoinRoutingToAll(dl, c, user, list) ==
  [d \in Clients |->
     IF d = c THEN dl[d] \o <<[ev |-> "recent_messages", list |-> list],
                              [ev |-> "user_joined", user |-> user]>>
     ELSE IF d \in Others(c)
       THEN Append(dl[d], [ev |-> "user_joined", user |-> user])
       ELSE dl[d]]

\* what handling join_chat of connection c makes of the downlinks dl:
\* recent_messages to c, then user_joined to every other open connection
JoinRouting(dl, c, user, list) ==
  [d \in Clients |->
     IF d = c THEN Append(dl[d], [ev |-> "recent_messages", list |-> list])
     ELSE IF d \in Others(c)
       THEN Append(dl[d], [ev |-> "user_joined", user |-> user])
       ELSE dl[d]]

ServerIdleVars ==
  <<wbVars, wbGhost, svcVars, oobVars, formVars, awaitVars, hookVars,
    conn, chatVars, fileSeq, ops, chatGhost>>

\* join_chat: record the identity, query the recent messages, answer the
\* joiner with recent_messages, then tell the others user_joined
ServerJoin(c) ==
  /\ conn[c] = "open"
  /\ uplink[c] # << >>
  /\ Head(uplink[c]).ev = "join_chat"
  /\ \A d \in Others(c) \cup {c} : Len(downlink[d]) < MaxQueue
  /\ LET e == Head(uplink[c])
         user == [id |-> e.userId, name |-> e.userName]
     IN /\ session' = [session EXCEPT ![c] = <<user>>]
        /\ downlink' = JoinRouting(downlink, c, user, LastN(store, RecentN))
        /\ last' = last
  /\ uplink' = [uplink EXCEPT ![c] = Tail(@)]
  /\ store' = store
  /\ records' = records \cup {[kind |-> "join", id |-> Head(uplink[c]).userId,
                               name |-> Head(uplink[c]).userName]}
  /\ UNCHANGED ServerIdleVars

\* a relay of chat_message that is skipped when the append has failed
RelayChatGated(dl, c, e, persisted) ==
  IF persisted THEN Broadcast(dl, c, e) ELSE dl

\* a relay that puts the chat_message ahead of what a connection has still to
\* receive
RelayChatAhead(dl, c, e, persisted) == BroadcastFront(dl, c, e)

\* the relay of chat_message e of connection c: to the others, whether or not
\* the append to the History Store succeeded
RelayChat(dl, c, e, persisted) == Broadcast(dl, c, e)

\* chat_message: persist (the append may fail), then relay to the others
ServerChatMessage(c, persisted) ==
  /\ conn[c] = "open"
  /\ uplink[c] # << >>
  /\ Head(uplink[c]).ev = "chat_message"
  /\ \A d \in Others(c) : Len(downlink[d]) < MaxQueue
  /\ LET e == Head(uplink[c])
     IN /\ store' = IF persisted THEN Append(store, e.msg) ELSE store
        /\ downlink' = RelayChat(downlink, c, e, persisted)
        /\ last' = last
  /\ uplink' = [uplink EXCEPT ![c] = Tail(@)]
  /\ session' = session
  /\ records' = records
  /\ UNCHANGED ServerIdleVars

\* a close handling that announces every closed connection, joined or not
LeaveRoutingAlways(dl, c) ==
  [d \in Clients |->
     IF d = c THEN << >>
     ELSE IF d \in Others(c)
       THEN Append(dl[d], [ev |-> "user_left",
                           user |-> IF session[c] # << >> THEN session[c][1]
                                    ELSE [id |-> c, name |-> ""]])
       ELSE dl[d]]

\* what handling the close of connection c makes of the downlinks dl:
\* user_left with the recorded identity to every other open connection, if an
\* identity was recorded
LeaveRouting(dl, c) ==
  [d \in Clients |->
     IF d = c THEN << >>
     ELSE IF d \in Others(c) /\ session[c] # << >>
       THEN Append(dl[d], [ev |-> "user_left", user |-> session[c][1]])
       ELSE dl[d]]

\* the user closes the page: the socket closes; the server, which has handled
\* everything the connection sent before (per-connection FIFO), tells the
\* others user_left and persists a leave record if the connection had joined
Disconnect(c) ==
  /\ conn[c] = "open"
  /\ uplink[c] = << >>
  /\ ops < MaxChatOps
  /\ \A d \in Others(c) : Len(downlink[d]) < MaxQueue
  /\ conn' = [conn EXCEPT ![c] = "closed"]
  /\ uplink' = uplink
  /\ downlink' = LeaveRouting(downlink, c)
  /\ records' = IF session[c] # << >>
                  THEN records \cup {[kind |-> "leave", id |-> session[c][1].id,
                                      name |-> session[c][1].name]}
                  ELSE records
  /\ session' = [session EXCEPT ![c] = << >>]
  /\ last' = last
  /\ ops' = ops + 1
  /\ UNCHANGED <<wbVars, wbGhost, svcVars, oobVars, formVars, awaitVars, hookVars,
                 chatVars, store, fileSeq, chatGhost>>

\* the Whiteboard's socket connects (C on the Whiteboard tab)
ConnectWhiteboard(c) ==
  /\ currentUser[c] = << >>
  /\ Connect(c)

\* a chat event arrives on the Whiteboard's socket, which has no listener for
\* it: the event is discarded
noListener(c) ==
  /\ currentUser[c] = << >>
  /\ conn[c] = "open"
  /\ downlink[c] # << >>
  /\ downlink' = [downlink EXCEPT ![c] = Tail(@)]
  /\ UNCHANGED <<wbVars, wbGhost, svcVars, oobVars, formVars, awaitVars, hookVars,
                 conn, uplink, chatVars, serverVars,
                 ops, last, chatGhost>>

NextChat ==
  \/ \E c \in Clients : ConnectChat(c)
  \/ \E c \in Clients, content \in Contents : handleSendMessage(c, content)
  \/ \E c \in Clients : handleFileUpload(c)
  \/ \E c \in Clients : uploadResolved(c)
  \/ \E c \in Clients : uploadRejected(c)
  \/ \E c \in Clients, i \in 1..MaxChatOps : handleDeleteMessage(c, i)
  \/ \E c \in Clients : \E q \in deleting[c] : deleteResolved(c, q.message)
  \/ \E c \in Clients : \E q \in deleting[c] : deleteRejected(c, q.message)
  \/ \E c \in Clients : handleMessage(c)
  \/ \E c \in Clients : handleUserJoined(c)
  \/ \E c \in Clients : handleUserLeft(c)
  \/ \E c \in Clients : handleRecentMessages(c)
  \/ \E c \in Clients : ServerJoin(c)
  \/ \E c \in Clients, persisted \in BOOLEAN : ServerChatMessage(c, persisted)
  \/ \E c \in Clients : Disconnect(c)
  \/ \E c \in Clients : ConnectWhiteboard(c)
  \/ \E c \in Clients : noListener(c)

SpecChat == InitChat /\ [][NextChat]_vars

\* ------------------------------------------------------ deleting, any log
\* what a log can hold: a text and a file message under the client's own
\* display name, a file message that carries no fileId, another user's text
\* and a system message
LogEntries ==
  {[id |-> <<"msg", "B", 1>>, type |-> "text", content |-> "hello", sender |-> "Ann"],
   [id |-> <<"file", "B", 2>>, type |-> "file", content |-> <<"https://x/", 1>>,
    sender |-> "Ann", fileName |-> "a.pdf", fileSize |-> 100,
    fileType |-> "application/pdf", downloadUrl |-> <<"https://x/", 1>>,
    fileId |-> <<"f", 1>>],
   [id |-> <<"file", "B", 3>>, type |-> "file", content |-> <<"https://x/", 2>>,
    sender |-> "Ann", fileName |-> "a.pdf", fileSize |-> 100,
    fileType |-> "application/pdf"],
   [id |-> <<"msg", "C", 1>>, type |-> "text", content |-> "hello", sender |-> "Bob"],
   SystemMessage("Bob", "joined the chat")}

\* Client A ("Ann") shows the Chat tab, has connected and joined, and its log
\* holds any sequence of up to MaxLog entries (an entry repeated included);
\* the History Store holds the chat messages among them.
InitDelete ==
  /\ WhiteboardMounted
  /\ ServiceIdle
  /\ \E log \in UNION {[1..k -> LogEntries] : k \in 0..MaxLog} :
       /\ messages = [c \in Clients |-> IF c = "A" THEN log ELSE << >>]
       /\ store = SelectSeq(log, LAMBDA m : m.type # "system")
  /\ users = [c \in Clients |-> << >>]
  /\ isUploading = [c \in Clients |-> FALSE]
  /\ uploads = [c \in Clients |-> 0]
  /\ deleting = [c \in Clients |-> {}]
  /\ msgSeq = [c \in Clients |-> 1]
  /\ fileSeq = 3
  /\ held = [c \in Clients |-> {}]
  /\ results = [c \in Clients |-> << >>]
  /\ alerts = [c \in Clients |-> << >>]
  /\ api = << >>
  /\ input = InputMounted
  /\ pending = [c \in Clients |-> << >>]
  /\ hooks = [h \in Hooks |-> Unmounted]
  /\ emits = [i \in 1..MaxSockets |-> << >>]
  /\ currentUser = [c \in Clients |-> <<Identity(c, IF c = "C" THEN "Bob" ELSE "Ann")>>]
  /\ conn = [c \in Clients |-> IF c = "A" THEN "open" ELSE "connecting"]
  /\ isConnected = [c \in Clients |-> c = "A"]
  /\ session = [c \in Clients |->
                  IF c = "A" THEN <<[id |-> c, name |-> "Ann"]>> ELSE << >>]
  /\ records = {[kind |-> "join", id |-> "A", name |-> "Ann"]}
  /\ uplink = [c \in Clients |-> << >>]
  /\ downlink = [c \in Clients |-> << >>]
  /\ hist = [c \in Clients |-> << >>]
  /\ ops = 0
  /\ last = NoOp

NextDelete ==
  \/ \E c \in Clients, i \in 1..MaxLog : handleDeleteMessage(c, i)
  \/ \E c \in Clients : \E q \in deleting[c] : deleteResolved(c, q.message)
  \/ \E c \in Clients : \E q \in deleting[c] : deleteRejected(c, q.message)

SpecDelete == InitDelete /\ [][NextDelete]_vars

\* ------------------------------------------------------------ chat delivery
\* A and B show the Chat tab and have connected and joined, A first: A has
\* handled B's user_joined, B its recent_messages.  C is still connecting, on
\* the Chat tab (join_chat in its send buffer) or on the Whiteboard tab.
InitDeliver ==
  /\ WhiteboardMounted
  /\ ServiceIdle
  /\ isUploading = [c \in Clients |-> FALSE]
  /\ uploads = [c \in Clients |-> 0]
  /\ deleting = [c \in Clients |-> {}]
  /\ msgSeq = [c \in Clients |-> 1]
  /\ store = << >>
  /\ fileSeq = 1
  /\ held = [c \in Clients |-> {}]
  /\ results = [c \in Clients |-> << >>]
  /\ alerts = [c \in Clients |-> << >>]
  /\ api = << >>
  /\ input = InputMounted
  /\ pending = [c \in Clients |-> << >>]
  /\ hooks = [h \in Hooks |-> Unmounted]
  /\ emits = [i \in 1..MaxSockets |-> << >>]
  /\ \E n \in {"Ann", ""} :
       currentUser = [c \in Clients |->
                        IF c # "C" THEN <<Identity(c, "Ann")>>
                        ELSE IF n = "" THEN << >> ELSE <<Identity(c, n)>>]
  /\ conn = [c \in Clients |-> IF c # "C" THEN "open" ELSE "connecting"]
  /\ isConnected = [c \in Clients |-> c # "C"]
  /\ session = [c \in Clients |->
                  IF c # "C" THEN <<[id |-> c, name |-> "Ann"]>> ELSE << >>]
  /\ uplink = [c \in Clients |->
                 IF c # "C" \/ currentUser[c] = << >>
                   THEN << >> ELSE <<JoinChat(currentUser[c][1])>>]
  /\ records = {[kind |-> "join", id |-> c, name |-> "Ann"] : c \in {"A", "B"}}
  /\ downlink = [c \in Clients |-> << >>]
  /\ users = [c \in Clients |-> IF c = "A" THEN <<[id |-> "B", name |-> "Ann"]>> ELSE << >>]
  /\ messages = [c \in Clients |->
                   IF c = "A" THEN <<SystemMessage("Ann", "joined the chat")>> ELSE << >>]
  /\ hist = [c \in Clients |->
               IF c = "A" THEN <<[op |-> "recent_messages", arg |-> << >>,
                                  msgs |-> << >>, users |-> << >>],
                                 [op |-> "user_joined", arg |-> [id |-> "B", name |-> "Ann"],
                                  msgs |-> << >>, users |-> << >>]>>
               ELSE IF c = "B" THEN <<[op |-> "recent_messages", arg |-> << >>,
                                  msgs |-> << >>, users |-> << >>]>>
               ELSE << >>]
  /\ ops = 0
  /\ last = NoOp

\* sending, relaying and receiving; no message is deleted
NextDeliver ==
  \/ \E c \in Clients : ConnectChat(c)
  \/ \E c \in Clients, content \in Contents : handleSendMessage(c, content)
  \/ \E c \in Clients : handleFileUpload(c)
  \/ \E c \in Clients : uploadResolved(c)
  \/ \E c \in Clients : uploadRejected(c)
  \/ \E c \in Clients : handleMessage(c)
  \/ \E c \in Clients : handleUserJoined(c)
  \/ \E c \in Clients : handleUserLeft(c)
  \/ \E c \in Clients : handleRecentMessages(c)
  \/ \E c \in Clients : ServerJoin(c)
  \/ \E c \in Clients, persisted \in BOOLEAN : ServerChatMessage(c, persisted)
  \/ \E c \in Clients : Disconnect(c)
  \/ \E c \in Clients : ConnectWhiteboard(c)
  \/ \E c \in Clients : noListener(c)

\* The event loops: the server handles every event a connection has sent, and
\* a client runs the listener of every event it has received (a socket
\* without a listener for the event discards it).
EventLoops ==
  \A c \in Clients :
    /\ WF_vars(ServerJoin(c))
    /\ WF_vars(\E persisted \in BOOLEAN : ServerChatMessage(c, persisted))
    /\ WF_vars(handleMessage(c))
    /\ WF_vars(handleUserJoined(c))
    /\ WF_vars(handleUserLeft(c))
    /\ WF_vars(handleRecentMessages(c))
    /\ WF_vars(noListener(c))

SpecDeliver == InitDeliver /\ [][NextDeliver]_vars /\ EventLoops

\* ------------------------------------- relay server, suspended at the store
\* The server handles an event to completion except where it awaits the
\* History Store (the append of a chat_message, the query of a join_chat):
\* there the handler is suspended and the events of the other connections are
\* handled meanwhile; the events of one connection are handled in order.
\* ServerJoin and ServerChatMessage above are these handlings when nothing is
\* handled during the await.
SuspendIdleVars ==
  <<wbVars, wbGhost, svcVars, oobVars, formVars, hookVars, conn, chatVars, fileSeq, ops,
    chatGhost, last>>

\* the connections whose join_chat handling awaits its query
Joining == {d \in Clients : pending[d] # << >> /\ pending[d][1].ev = "join_chat"}

\* join_chat, up to the await: record the identity, persist the join record,
\* query the most recent messages (the store answers with what it holds now)
ServerJoinQuery(c) ==
  /\ conn[c] = "open"
  /\ pending[c] = << >>
  /\ uplink[c] # << >>
  /\ Head(uplink[c]).ev = "join_chat"
  /\ LET e == Head(uplink[c])
         user == [id |-> e.userId, name |-> e.userName]
     IN /\ session' = [session EXCEPT ![c] = <<user>>]
        /\ records' = records \cup {[kind |-> "join", id |-> e.userId, name |-> e.userName]}
        /\ pending' = [pending EXCEPT ![c] = <<[ev |-> "join_chat", user |-> user,
                                                list |-> LastN(store, RecentN)]>>]
  /\ uplink' = [uplink EXCEPT ![c] = Tail(@)]
  /\ UNCHANGED <<downlink, store>>
  /\ UNCHANGED SuspendIdleVars

\* join_chat, after the await: recent_messages to the joiner, then user_joined
\* to the others
ServerJoinAnswer(c) ==
  /\ conn[c] = "open"
  /\ c \in Joining
  /\ \A d \in Others(c) \cup {c} : Len(downlink[d]) < MaxQueue
  /\ downlink' = JoinRouting(downlink, c, pending[c][1].user, pending[c][1].list)
  /\ pending' = [pending EXCEPT ![c] = << >>]
  /\ UNCHANGED <<uplink, session, store, records>>
  /\ UNCHANGED SuspendIdleVars

\* chat_message, up to the await: append to the store (the append may fail).
\* `joining` is bookkeeping: the joins that were awaiting their query when
\* this handling started.
ServerChatAppend(c, persisted) ==
  /\ conn[c] = "open"
  /\ pending[c] = << >>
  /\ uplink[c] # << >>
  /\ Head(uplink[c]).ev = "chat_message"
  /\ store' = IF persisted THEN Append(store, Head(uplink[c]).msg) ELSE store
  /\ pending' = [pending EXCEPT ![c] = <<[ev |-> "chat_message", e |-> Head(uplink[c]),
                                          persisted |-> persisted, joining |-> Joining]>>]
  /\ uplink' = [uplink EXCEPT ![c] = Tail(@)]
  /\ UNCHANGED <<downlink, session, records>>
  /\ UNCHANGED SuspendIdleVars

\* chat_message, after the await: relay to the others
ServerChatRelay(c) ==
  /\ conn[c] = "open"
  /\ pending[c] # << >>
  /\ pending[c][1].ev = "chat_message"
  /\ \A d \in Others(c) : Len(downlink[d]) < MaxQueue
  /\ downlink' = RelayChat(downlink, c, pending[c][1].e, pending[c][1].persisted)
  /\ pending' = [pending EXCEPT ![c] = << >>]
  /\ UNCHANGED <<uplink, session, store, records>>
  /\ UNCHANGED SuspendIdleVars

\* A and B show the Chat tab and have connected and joined, A first: A has
\* handled B's user_joined, B its recent_messages.  C shows the Chat tab and
\* has just connected: its join_chat has left the send buffer and the server
\* has not handled it yet.
InitJoin ==
  /\ WhiteboardMounted
  /\ ChatIdle
  /\ ServiceIdle
  /\ currentUser = [c \in Clients |-> <<Identity(c, IF c = "C" THEN "Bob" ELSE "Ann")>>]
  /\ conn = [c \in Clients |-> "open"]
  /\ isConnected = [c \in Clients |-> TRUE]
  /\ session = [c \in Clients |->
                  IF c # "C" THEN <<[id |-> c, name |-> "Ann"]>> ELSE << >>]
  /\ uplink = [c \in Clients |-> IF c = "C" THEN <<JoinChat(currentUser[c][1])>> ELSE << >>]
  /\ records = {[kind |-> "join", id |-> c, name |-> "Ann"] : c \in {"A", "B"}}
  /\ downlink = [c \in Clients |-> << >>]
  /\ hist = [c \in Clients |-> << >>]
  /\ ops = 0
  /\ last = NoOp

NextJoin ==
  \/ \E c \in Clients, content \in Contents : handleSendMessage(c, content)
  \/ \E c \in Clients : handleMessage(c)
  \/ \E c \in Clients : handleUserJoined(c)
  \/ \E c \in Clients : handleRecentMessages(c)
  \/ \E c \in Clients : ServerJoinQuery(c)
  \/ \E c \in Clients : ServerJoinAnswer(c)
  \/ \E c \in Clients, persisted \in BOOLEAN : ServerChatAppend(c, persisted)
  \/ \E c \in Clients : ServerChatRelay(c)

SpecJoin == InitJoin /\ [][NextJoin]_vars

\* ------------------------------------------- Chat handlers, presence events
\* the identities presence events carry: an id can come back under another
\* name
PresenceUsers == {[id |-> c, name |-> n] : c \in {"B", "C"}, n \in Names}

PresenceEvents ==
  {[ev |-> "user_joined", user |-> u] : u \in PresenceUsers}
  \cup {[ev |-> "user_left", user |-> u] : u \in PresenceUsers}

\* Client A shows the Chat tab, has connected and joined, knows no user yet
\* (useState([])), and any sequence of user_joined and user_left events is on
\* its way to it
InitPresence ==
  /\ WhiteboardMounted
  /\ ChatIdle
  /\ ServiceIdle
  /\ currentUser = [c \in Clients |-> <<Identity(c, IF c = "A" THEN "Ann" ELSE "Bob")>>]
  /\ conn = [c \in Clients |-> IF c = "A" THEN "open" ELSE "connecting"]
  /\ isConnected = [c \in Clients |-> c = "A"]
  /\ session = [c \in Clients |->
                  IF c = "A" THEN <<[id |-> c, name |-> "Ann"]>> ELSE << >>]
  /\ records = {[kind |-> "join", id |-> "A", name |-> "Ann"]}
  /\ uplink = [c \in Clients |-> << >>]
  /\ \E q \in UNION {[1..k -> PresenceEvents] : k \in 0..MaxPresence} :
       downlink = [c \in Clients |-> IF c = "A" THEN q ELSE << >>]
  /\ hist = [c \in Clients |-> << >>]
  /\ ops = 0
  /\ last = NoOp

NextPresence ==
  \/ \E c \in Clients : handleUserJoined(c)
  \/ \E c \in Clients : handleUserLeft(c)

SpecPresence == InitPresence /\ [][NextPresence]_vars

\* ============================================================ SocketService
\* The singleton is constructed and no component is mounted on it yet.
InitSvc ==
  /\ WhiteboardMounted
  /\ ChatIdle
  /\ ServiceIdle
  /\ currentUser = [c \in Clients |-> << >>]
  /\ isConnected = [c \in Clients |-> FALSE]
  /\ session = [c \in Clients |-> << >>]
  /\ records = {}
  /\ hist = [c \in Clients |-> << >>]
  /\ conn = [c \in Clients |-> "closed"]
  /\ uplink = [c \in Clients |-> << >>]
  /\ downlink = [c \in Clients |-> << >>]
  /\ ops = 0
  /\ last = NoOp

SvcFrame ==
  UNCHANGED <<wbVars, netVars, chatVars, serverVars, ops, last, wbGhost, chatGhost, oobVars,
              formVars, awaitVars, hookVars>>

\* a connect() that never takes the early return
neverConnected == FALSE

\* this.socket?.connected
alreadyConnected == socket # 0 /\ sockets[socket].state = "open"

\* SocketService.connect(); io() creates a socket that starts connecting
connect ==
  /\ IF alreadyConnected
       THEN /\ socket' = socket
            /\ sockets' = sockets
       ELSE /\ Len(sockets) < MaxSockets
            /\ sockets' = Append(sockets, [state |-> "connecting", sent |-> 0])
            /\ socket' = Len(sockets) + 1
  /\ called' = <<[field |-> socket,
                  open |-> socket # 0 /\ sockets[socket].state = "open",
                  created |-> Len(sockets),
                  ret |-> socket']>>
  /\ SvcFrame

\* SocketService.disconnect()
disconnect ==
  /\ IF socket # 0
       THEN /\ sockets' = [sockets EXCEPT ![socket].state = "closed"]
            /\ socket' = 0
       ELSE /\ sockets' = sockets
            /\ socket' = socket
  /\ called' = << >>
  /\ SvcFrame

\* the transport session of socket i is established: i.connected becomes true
transportOpen(i) ==
  /\ i \in DOMAIN sockets
  /\ sockets[i].state = "connecting"
  /\ sockets' = [sockets EXCEPT ![i].state = "open"]
  /\ UNCHANGED <<socket, called>>
  /\ SvcFrame

\* the transport session of socket i is lost: i.connected becomes false and
\* socket.io-client goes back to connecting
transportLost(i) ==
  /\ i \in DOMAIN sockets
  /\ sockets[i].state = "open"
  /\ sockets' = [sockets EXCEPT ![i].state = "connecting"]
  /\ UNCHANGED <<socket, called>>
  /\ SvcFrame

\* SocketService.joinChat / sendMessage: emit on the held socket, if any (a
\* socket that is not connected buffers the event)
sendMessage ==
  /\ IF socket # 0
       THEN /\ sockets[socket].sent < MaxSent
            /\ sockets' = [sockets EXCEPT ![socket].sent = @ + 1]
       ELSE sockets' = sockets
  /\ UNCHANGED <<socket, called>>
  /\ SvcFrame

NextSvc ==
  \/ connect
  \/ sendMessage
  \/ disconnect
  \/ \E i \in 1..MaxSockets : transportOpen(i)
  \/ \E i \in 1..MaxSockets : transportLost(i)

SpecSvc == InitSvc /\ [][NextSvc]_vars

\* ================================================= useSocket on the service
HookFrame ==
  UNCHANGED <<wbVars, netVars, chatVars, serverVars, ops, last, wbGhost, chatGhost, oobVars,
              formVars, awaitVars>>

\* i.connected
connected(i) == i # 0 /\ sockets[i].state = "open"

\* what isConnected holds after the effect has run for newSocket: the variant
\* calls setIsConnected(newSocket.connected), hooks/useSocket.ts leaves the
\* useState(false)
initialIsConnected(h, newSocket, all) ==
  IF h = HookVariant THEN all[newSocket].state = "open" ELSE FALSE

\* the mount effect of useSocket instance h: socketService.connect(),
\* setSocket(newSocket), the listeners registered on newSocket
useSocketEffect(h) ==
  /\ ~hooks[h].mounted
  /\ IF alreadyConnected
       THEN /\ socket' = socket
            /\ sockets' = sockets
       ELSE /\ Len(sockets) < MaxSockets
            /\ sockets' = Append(sockets, [state |-> "connecting", sent |-> 0])
            /\ socket' = Len(sockets) + 1
  /\ called' = <<[field |-> socket,
                  open |-> socket # 0 /\ sockets[socket].state = "open",
                  created |-> Len(sockets),
                  ret |-> socket']>>
  /\ hooks' = [hooks EXCEPT ![h] =
                 [mounted |-> TRUE, socket |-> socket',
                  isConnected |-> initialIsConnected(h, socket', sockets'),
                  currentUser |-> FALSE, attempts |-> 0]]
  /\ UNCHANGED emits
  /\ HookFrame

\* the listeners of the other mounted instances on socket i run
\* handleDisconnect when i was connected and is closed
heardDisconnect(h, i) ==
  [g \in Hooks |->
     IF g = h THEN Unmounted
     ELSE IF hooks[g].mounted /\ hooks[g].socket = i /\ connected(i)
       THEN [hooks[g] EXCEPT !.isConnected = FALSE]
       ELSE hooks[g]]

\* the cleanup of instance h on unmount: the listeners are removed, and
\* hooks/useSocket.ts calls socketService.disconnect(); the variant leaves the
\* service alone
useSocketCleanup(h) ==
  /\ hooks[h].mounted
  /\ IF h = HookNamed
       THEN /\ IF socket # 0
                 THEN /\ sockets' = [sockets EXCEPT ![socket].state = "closed"]
                      /\ socket' = 0
                 ELSE /\ sockets' = sockets
                      /\ socket' = socket
            /\ called' = << >>
            /\ hooks' = heardDisconnect(h, socket)
       ELSE /\ UNCHANGED <<socket, sockets, called>>
            /\ hooks' = [hooks EXCEPT ![h] = Unmounted]
  /\ UNCHANGED emits
  /\ HookFrame

\* socket i connects: i.connected becomes true and the 'connect' listeners
\* of the instances mounted on i run setIsConnected(true)
handleConnect(i) ==
  /\ i \in DOMAIN sockets
  /\ sockets[i].state = "connecting"
  /\ sockets' = [sockets EXCEPT ![i].state = "open"]
  /\ hooks' = [g \in Hooks |->
                 IF hooks[g].mounted /\ hooks[g].socket = i
                   THEN [hooks[g] EXCEPT !.isConnected = TRUE]
                   ELSE hooks[g]]
  /\ UNCHANGED <<socket, called, emits>>
  /\ HookFrame

\* socket i loses its transport: i.connected becomes false, the 'disconnect'
\* listeners run setIsConnected(false), socket.io-client reconnects
handleDisconnect(i) ==
  /\ i \in DOMAIN sockets
  /\ sockets[i].state = "open"
  /\ sockets' = [sockets EXCEPT ![i].state = "connecting"]
  /\ hooks' = [g \in Hooks |->
                 IF hooks[g].mounted /\ hooks[g].socket = i
                   THEN [hooks[g] EXCEPT !.isConnected = FALSE]
                   ELSE hooks[g]]
  /\ UNCHANGED <<socket, called, emits>>
  /\ HookFrame

\* a handleSendMessage without its guard
identityAssumed == TRUE

\* handleSendMessage's guard passed: currentUser is set
hasIdentity == hooks[HookNamed].currentUser

\* socketService.joinChat / sendMessage: if (this.socket) this.socket.emit(ev)
serviceEmit(ev) ==
  IF socket # 0 THEN [emits EXCEPT ![socket] = Append(@, ev)] ELSE emits

\* Chat's effect once the hook has handed it a socket: the identity is
\* generated, setCurrentUser(user), joinChat(userId, userName)
ChatEffect ==
  /\ hooks[HookNamed].mounted
  /\ hooks[HookNamed].socket # 0
  /\ ~hooks[HookNamed].currentUser
  /\ hooks' = [hooks EXCEPT ![HookNamed].currentUser = TRUE]
  /\ emits' = serviceEmit("join_chat")
  /\ sockets' = IF socket # 0 THEN [sockets EXCEPT ![socket].sent = @ + 1] ELSE sockets
  /\ UNCHANGED <<socket, called>>
  /\ HookFrame

\* Chat's handleSendMessage, reached from the input that isConnected enables:
\* if (!currentUser) return; sendMessage(message)
ChatSend ==
  /\ hooks[HookNamed].mounted
  /\ hooks[HookNamed].isConnected
  /\ hooks[HookNamed].attempts < MaxAttempts
  /\ hooks' = [hooks EXCEPT ![HookNamed].attempts = @ + 1]
  /\ IF hasIdentity
       THEN /\ socket # 0 => Len(emits[socket]) < MaxEmits
            /\ emits' = serviceEmit("chat_message")
            /\ sockets' = IF socket # 0
                            THEN [sockets EXCEPT ![socket].sent = @ + 1]
                            ELSE sockets
       ELSE UNCHANGED <<emits, sockets>>
  /\ UNCHANGED <<socket, called>>
  /\ HookFrame

\* Chat and its useSocket, the one consumer of the service in the application
NextMount ==
  \/ useSocketEffect(HookNamed)
  \/ useSocketCleanup(HookNamed)
  \/ ChatEffect
  \/ ChatSend
  \/ \E i \in 1..MaxSockets : handleConnect(i)
  \/ \E i \in 1..MaxSockets : handleDisconnect(i)

SpecMount == InitSvc /\ [][NextMount]_vars

\* both hooks of the repository mounted on the one exported socketService
NextHooks ==
  \/ \E h \in Hooks : useSocketEffect(h)
  \/ \E h \in Hooks : useSocketCleanup(h)
  \/ ChatEffect
  \/ ChatSend
  \/ \E i \in 1..MaxSockets : handleConnect(i)
  \/ \E i \in 1..MaxSockets : handleDisconnect(i)

SpecHooks == InitSvc /\ [][NextHooks]_vars

\* ============================================================= MessageInput
\* a text is a sequence of characters
Chars == {" ", "a"}
WhiteSpace == {" "}
Texts == UNION {[1..k -> Chars] : k \in 0..MaxText}

\* a handleSubmit that sends the text as typed
trimNone(text) == text

RECURSIVE trimStart(_)
trimStart(text) ==
  IF text # << >> /\ Head(text) \in WhiteSpace THEN trimStart(Tail(text)) ELSE text

RECURSIVE trimEnd(_)
trimEnd(text) ==
  IF text # << >> /\ text[Len(text)] \in WhiteSpace
    THEN trimEnd(SubSeq(text, 1, Len(text) - 1))
    ELSE text

\* String.prototype.trim
trim(text) == trimEnd(trimStart(text))

\* MessageInput rendered on its own, as its tests render it
InitInput ==
  /\ WhiteboardMounted
  /\ ChatIdle
  /\ ServiceIdle
  /\ currentUser = [c \in Clients |-> << >>]
  /\ isConnected = [c \in Clients |-> FALSE]
  /\ session = [c \in Clients |-> << >>]
  /\ records = {}
  /\ hist = [c \in Clients |-> << >>]
  /\ conn = [c \in Clients |-> "closed"]
  /\ uplink = [c \in Clients |-> << >>]
  /\ downlink = [c \in Clients |-> << >>]
  /\ ops = 0
  /\ last = NoOp

InputFrame ==
  UNCHANGED <<wbVars, netVars, chatVars, serverVars, ops, last, wbGhost, chatGhost, svcVars,
              oobVars, awaitVars, hookVars>>

\* the parent renders MessageInput with another value of the disabled prop
setDisabled(d) ==
  /\ d # input.disabled
  /\ input' = [input EXCEPT !.disabled = d]
  /\ InputFrame

\* onChange of the text input (a disabled input takes no typing):
\* setNewMessage(e.target.value)
setNewMessage(value) ==
  /\ ~input.disabled
  /\ value # input.newMessage
  /\ input' = [input EXCEPT !.newMessage = value]
  /\ InputFrame

\* the form's onSubmit
handleSubmit ==
  /\ input.submits < MaxSubmits
  /\ IF trim(input.newMessage) # << >> /\ ~input.disabled
       THEN input' = [input EXCEPT !.sent = Append(@, trim(input.newMessage)),
                                   !.newMessage = << >>,
                                   !.submits = @ + 1]
       ELSE input' = [input EXCEPT !.submits = @ + 1]
  /\ InputFrame

NextInput ==
  \/ \E d \in BOOLEAN : setDisabled(d)
  \/ \E value \in Texts : setNewMessage(value)
  \/ handleSubmit

SpecInput == InitInput /\ [][NextInput]_vars

\* ============================================================= services/api
\* what a call is made with: a file for uploadFile, an id for the other two
ApiArgs ==
  [uploadFile |-> {"a.pdf"}, deleteFile |-> {<<"f", 1>>}, deleteMessage |-> {<<"msg", "A", 1>>}]

ApiFns == DOMAIN ApiArgs

\* the text of a response body: the JSON text of a value, or a text that is
\* not JSON (an HTML page, an empty body)
Bodies ==
  {<<"json", UploadResult(n)>> : n \in 1..2} \cup {<<"text", "<html>">>, <<"text", "">>}

\* what fetch resolves with
Responses == [ok : BOOLEAN, statusText : {"OK", "Not Found"}, body : Bodies]

\* response.json(): the value of a JSON body; a body that is not JSON makes it
\* reject with a SyntaxError
json(response) ==
  IF response.body[1] = "json"
    THEN [settled |-> "resolved", value |-> response.body[2]]
    ELSE [settled |-> "rejected", value |-> <<"SyntaxError">>]

\* the message of the Error thrown for a response that is not ok
FailedText(fn) == IF fn = "uploadFile" THEN "Upload failed: " ELSE "Delete failed: "

\* a call that asks again when the response is not ok
afterResponseRetry(call, response) ==
  IF ~response.ok /\ call.fetches < 2
    THEN [call EXCEPT !.fetches = @ + 1]
    ELSE [call EXCEPT !.settled = IF response.ok THEN "resolved" ELSE "rejected",
                      !.response = <<response>>]

\* uploadFile / deleteFile / deleteMessage after `await fetch(...)`: the call
\* as it settles on the response
afterResponse(call, response) ==
  IF ~response.ok
    THEN [call EXCEPT !.settled = "rejected",
                      !.value = <<FailedText(call.fn), response.statusText>>,
                      !.response = <<response>>]
    ELSE IF call.fn = "uploadFile"
      THEN [call EXCEPT !.settled = json(response).settled,
                        !.value = json(response).value,
                        !.response = <<response>>]
      ELSE [call EXCEPT !.settled = "resolved", !.response = <<response>>]

\* the module as imported; no call made yet
InitApi ==
  /\ WhiteboardMounted
  /\ ChatIdle
  /\ ServiceIdle
  /\ currentUser = [c \in Clients |-> << >>]
  /\ isConnected = [c \in Clients |-> FALSE]
  /\ session = [c \in Clients |-> << >>]
  /\ records = {}
  /\ hist = [c \in Clients |-> << >>]
  /\ conn = [c \in Clients |-> "closed"]
  /\ uplink = [c \in Clients |-> << >>]
  /\ downlink = [c \in Clients |-> << >>]
  /\ ops = 0
  /\ last = NoOp

ApiFrame ==
  UNCHANGED <<wbVars, netVars, chatVars, serverVars, ops, last, wbGhost, chatGhost, svcVars,
              alerts, formVars, awaitVars, hookVars>>

\* a call of uploadFile / deleteFile / deleteMessage up to its `await fetch`:
\* one request is made
apiCall(fn, arg) ==
  /\ Len(api) < MaxCalls
  /\ \A k \in DOMAIN api : api[k].settled # "awaiting"
  /\ api' = Append(api, [fn |-> fn, arg |-> arg, fetches |-> 1, settled |-> "awaiting",
                          value |-> << >>, response |-> << >>])
  /\ ApiFrame

\* fetch resolves with a response and the call goes on
fetchResolved(response) ==
  /\ api # << >>
  /\ api[Len(api)].settled = "awaiting"
  /\ api' = [api EXCEPT ![Len(api)] = afterResponse(@, response)]
  /\ ApiFrame

NextApi ==
  \/ \E fn \in ApiFns : \E arg \in ApiArgs[fn] : apiCall(fn, arg)
  \/ \E response \in Responses : fetchResolved(response)

SpecApi == InitApi /\ [][NextApi]_vars

\* ======================================================= Whiteboard claims
WbEmitOps == {"startDrawing", "draw", "stopDrawing", "clickClear", "onClear"}

Max(S) == CHOOSE x \in S : \A y \in S : y <= x

\* the positions of log that hold a start event of stroke s
StartsOf(log, s) ==
  {i \in 1..Len(log) : log[i].type = "start" /\ log[i].strokeId = s}

\* the points of the draw events of stroke s in log, in order
RECURSIVE DrawPoints(_, _)
DrawPoints(log, s) ==
  IF log = << >> THEN << >>
  ELSE (IF Head(log).type = "draw" /\ Head(log).strokeId = s
          THEN <<Head(log).point>> ELSE << >>) \o DrawPoints(Tail(log), s)

\* the start event's point followed by the points of the draw events after it
ExpectedPoints(log, s) ==
  LET k == Max(StartsOf(log, s))
  IN <<log[k].point>> \o DrawPoints(SubSeq(log, k + 1, Len(log)), s)

\* C1 Stroke append monotonicity: every stroke a client holds from received
\* events has exactly the start event's point followed by the points of the
\* draw events for its id received after that start, in arrival order.
StrokeAppendMonotonicity ==
  \A c \in Clients : \A s \in DOMAIN strokes[c] :
    Owner(s) # c =>
      /\ StartsOf(rlog[c], s) # {}
      /\ strokes[c][s].points = ExpectedPoints(rlog[c], s)

\* a client holds a received stroke of two distinct points whose draw event
\* arrived after an event of another stroke
StrokeAppendWitness ==
  \E c \in Clients : \E s \in DOMAIN strokes[c] :
    /\ Owner(s) # c
    /\ Len(strokes[c][s].points) = 2
    /\ strokes[c][s].points[1] # strokes[c][s].points[2]
    /\ \E i, j, k \in 1..Len(rlog[c]) :
         /\ i < j /\ j < k
         /\ rlog[c][i].type = "start" /\ rlog[c][i].strokeId = s
         /\ rlog[c][j].strokeId # s
         /\ rlog[c][k].type = "draw" /\ rlog[c][k].strokeId = s

\* C2 Clear resets all strokes: right after a clear (button or received
\* event) the client holds no stroke and no stroke in progress.
ClearResetsAllStrokes ==
  last.op \in {"clickClear", "onClear"} =>
    /\ strokes[last.c] = EmptyMap
    /\ currentStroke[last.c] = << >>

\* a received clear hit a client that held strokes and was in mid-gesture
ClearResetsWitness ==
  /\ last.op = "onClear"
  /\ last.hadStrokes
  /\ last.hadCurrent
  /\ strokes[last.c] = EmptyMap

NoneInFlight(s, b) ==
  /\ \A i \in 1..Len(downlink[b]) :
       downlink[b][i].ev = "drawing" => downlink[b][i].strokeId # s
  /\ \A i \in 1..Len(uplink[Owner(s)]) :
       uplink[Owner(s)][i].ev = "drawing" => uplink[Owner(s)][i].strokeId # s

\* client b holds stroke s as its drawer emitted it
HoldsAsEmitted(b, s) ==
  /\ s \in DOMAIN strokes[b]
  /\ strokes[b][s].points = emitted[s].points
  /\ strokes[b][s].color = emitted[s].color
  /\ strokes[b][s].width = emitted[s].width

\* C6 as stated: once another client has handled the start of stroke s and
\* every event emitted for s has been handled by it, it holds s with the
\* emitted points, colour and width.
EndToEndReplicationAsStated ==
  \A s \in DOMAIN emitted : \A b \in Clients \ {Owner(s)} :
    (s \in gotStart[b] /\ NoneInFlight(s, b)) => HoldsAsEmitted(b, s)

\* C6 amended: the same, provided the client has applied no clear (button or
\* received event) since it handled the start of s.
EndToEndReplication ==
  \A s \in DOMAIN emitted : \A b \in Clients \ {Owner(s)} :
    (StartsOf(rlog[b], s) # {} /\ NoneInFlight(s, b)) => HoldsAsEmitted(b, s)

\* a receiver holds a complete two-point stroke drawn with a brush that is
\* not its own
EndToEndWitness ==
  \E s \in DOMAIN emitted : \E b \in Clients \ {Owner(s)} :
    /\ StartsOf(rlog[b], s) # {}
    /\ NoneInFlight(s, b)
    /\ Len(emitted[s].points) = 2
    /\ HoldsAsEmitted(b, s)
    /\ emitted[s].color # currentColor[b]

\* C9 Local/remote symmetry: at every moment of a gesture the drawer's stroke
\* collection holds the stroke in progress with the points emitted so far, as
\* a receiver of the same events does.
LocalRemoteSymmetry ==
  \A c \in Clients :
    currentStroke[c] # << >> =>
      LET cur == currentStroke[c][1]
      IN /\ cur.id \in DOMAIN strokes[c]
         /\ strokes[c][cur.id].points = emitted[cur.id].points

\* C10 Clear does not echo: applying a received clear puts no event on the
\* channel (neither in the send buffer nor in any other client's downlink).
ClearDoesNotEcho ==
  [][\A c \in Clients :
       (vars' # vars /\ last'.op = "onClear" /\ last'.c = c) =>
         /\ uplink' = uplink
         /\ \A d \in Clients \ {c} : downlink'[d] = downlink[d]]_vars


\* ============================================================== Chat claims
LastOp(c) == hist[c][Len(hist[c])]

IsFile(m) == m.type = "file"

\* C4 -- join snapshot: right after a client has handled recent_messages with
\* list L its message log equals L, whatever the log held before.
JoinSnapshot ==
  \A c \in Clients :
    (hist[c] # << >> /\ LastOp(c).op = "recent_messages")
      => messages[c] = LastOp(c).arg

\* a snapshot was applied over a log that held a system message and a chat
\* message, and the snapshot was not empty
JoinSnapshotWitness ==
  \E c \in Clients :
    /\ hist[c] # << >> /\ LastOp(c).op = "recent_messages"
    /\ LastOp(c).arg # << >>
    /\ \E i, j \in DOMAIN LastOp(c).msgs :
         /\ LastOp(c).msgs[i].type = "system"
         /\ LastOp(c).msgs[j].type = "text"
    /\ messages[c] # LastOp(c).msgs

\* C5 -- presence toggling: after a client has handled user_joined(u) and then
\* user_left(u), u is in its known users exactly once with isOnline = FALSE,
\* and its log is the log from before the two events followed by exactly two
\* system messages, "joined" then "left", each carrying u's name.
PresenceToggling ==
  \A c \in Clients :
    (/\ Len(hist[c]) = 2
     /\ hist[c][1].op = "user_joined" /\ hist[c][2].op = "user_left"
     /\ hist[c][1].arg.id = hist[c][2].arg.id)
      => LET u == hist[c][1].arg
             known == {i \in DOMAIN users[c] : users[c][i].id = u.id}
         IN /\ Cardinality(known) = 1
            /\ \A i \in known : /\ "isOnline" \in DOMAIN users[c][i]
                                /\ users[c][i].isOnline = FALSE
            /\ Len(messages[c]) = Len(hist[c][1].msgs) + 2
            /\ SubSeq(messages[c], 1, Len(hist[c][1].msgs)) = hist[c][1].msgs
            /\ LET joined == messages[c][Len(messages[c]) - 1]
                   left == messages[c][Len(messages[c])]
               IN /\ joined.type = "system" /\ left.type = "system"
                  /\ joined.content = <<u.name, "joined the chat">>
                  /\ left.content = <<u.name, "left the chat">>

\* a client has handled user_joined(u) and then user_left(u) for a user it
\* did not know before
PresenceTogglingWitness ==
  \E c \in Clients :
    /\ Len(hist[c]) = 2
    /\ hist[c][1].op = "user_joined" /\ hist[c][2].op = "user_left"
    /\ hist[c][1].arg.id = hist[c][2].arg.id
    /\ \A i \in DOMAIN hist[c][1].users : hist[c][1].users[i].id # hist[c][1].arg.id

\* the fields a file message takes from the upload result r
CarriesResult(m, r) ==
  /\ m.type = "file"
  /\ "fileId" \in DOMAIN m /\ m.fileId = r.file_id
  /\ "downloadUrl" \in DOMAIN m /\ m.downloadUrl = r.download_url
  /\ "fileName" \in DOMAIN m /\ m.fileName = r.original_name
  /\ "fileSize" \in DOMAIN m /\ m.fileSize = r.size
  /\ "fileType" \in DOMAIN m /\ m.fileType = r.content_type

\* every message a client holds or that is on its way
Everywhere ==
  UNION {Range(messages[c]) : c \in Clients}
    \cup Range(store)
    \cup UNION {{uplink[c][i].msg : i \in {k \in DOMAIN uplink[c] :
                                             uplink[c][k].ev = "chat_message"}} :
                c \in Clients}
    \cup UNION {{downlink[c][i].msg : i \in {k \in DOMAIN downlink[c] :
                                               downlink[c][k].ev = "chat_message"}} :
                c \in Clients}
    \cup UNION {UNION {Range(downlink[c][i].list) :
                         i \in {k \in DOMAIN downlink[c] :
                                  downlink[c][k].ev = "recent_messages"}} :
                c \in Clients}

\* the step of a successful upload emits exactly one event, the file message
\* built from the result
EmitsOneFileMessage ==
  \A c \in Clients :
    uploadResolved(c) =>
      /\ Len(uplink'[c]) = Len(uplink[c]) + 1
      /\ SubSeq(uplink'[c], 1, Len(uplink[c])) = uplink[c]
      /\ uplink'[c][Len(uplink'[c])].ev = "chat_message"
      /\ CarriesResult(uplink'[c][Len(uplink'[c])].msg, UploadResult(fileSeq))
      /\ \A d \in Clients \ {c} : uplink'[d] = uplink[d]
      /\ downlink' = downlink

\* every file message anywhere carries the fields of the upload result it was
\* built from
FileFieldsIdentical ==
  \A m \in Everywhere :
    IsFile(m) =>
      \E c \in Clients : \E k \in DOMAIN results[c] :
        /\ m.id[2] = c
        /\ CarriesResult(m, results[c][k])

\* C7 -- file message round trip: a successful upload emits exactly one
\* message, of type file, with fileId, downloadUrl, fileName, fileSize and
\* fileType taken from the upload result; every file message in a client's log,
\* in the store or in flight has these same fields, fileId and downloadUrl
\* included.
FileMessageRoundTrip ==
  /\ [][EmitsOneFileMessage]_vars
  /\ [](FileFieldsIdentical)

\* two clients other than the uploader hold the file message of an upload
FileMessageRoundTripWitness ==
  \E c \in Clients : \E k \in DOMAIN results[c] :
    \E b, d \in Clients \ {c} :
      /\ b # d
      /\ \E i \in DOMAIN messages[b] : CarriesResult(messages[b][i], results[c][k])
      /\ \E j \in DOMAIN messages[d] : CarriesResult(messages[d][j], results[c][k])

\* the step of an acknowledged delete at a touches neither the channel nor
\* another client's log
DeleteIsLocal ==
  \A a \in Clients : \A q \in deleting[a] :
    deleteResolved(a, q.message) =>
      /\ uplink' = uplink
      /\ downlink' = downlink
      /\ \A b \in Clients \ {a} : messages'[b] = messages[b]
      /\ \A i \in DOMAIN messages'[a] : messages'[a][i].id # q.message.id

ConnectIdempotent ==
  \A k \in DOMAIN called :
    called[k].open =>
      /\ called[k].ret = called[k].field
      /\ socket = called[k].field
      /\ Len(sockets) = called[k].created

\* connect() was called on a connected socket, after an earlier socket of the
\* service had been closed
ConnectIdempotentWitness ==
  \E k \in DOMAIN called :
    /\ called[k].open
    /\ called[k].field > 1
    /\ sockets[1].state = "closed"


\* ============================================================ Server claims
\* the events a step has added at the end of d's downlink
Added(d) == SubSeq(downlink'[d], Len(downlink[d]) + 1, Len(downlink'[d]))

Grew(d) ==
  /\ Len(downlink'[d]) >= Len(downlink[d])
  /\ SubSeq(downlink'[d], 1, Len(downlink[d])) = downlink[d]

\* what the server step handling join_chat of c sends
JoinRoutingStep ==
  \A c \in Clients :
    ServerJoin(c) =>
      LET e == Head(uplink[c])
          joined == [ev |-> "user_joined",
                     user |-> [id |-> e.userId, name |-> e.userName]]
      IN /\ \A d \in Clients : Grew(d)
         /\ Len(Added(c)) = 1
         /\ Added(c)[1].ev = "recent_messages"
         /\ \A d \in Clients \ {c} :
              /\ \A i \in DOMAIN Added(d) : Added(d)[i].ev # "recent_messages"
              /\ Added(d) = IF conn[d] = "open" THEN <<joined>> ELSE << >>

SentJoin(c) == currentUser[c] # << >>

\* what the server step handling the close of c sends and persists
LeaveStep ==
  \A c \in Clients :
    Disconnect(c) =>
      LET user == [id |-> currentUser[c][1].id, name |-> currentUser[c][1].name]
          leave == [kind |-> "leave", id |-> user.id, name |-> user.name]
      IN /\ \A d \in Clients \ {c} : Grew(d)
         /\ IF SentJoin(c)
              THEN /\ \A d \in Clients \ {c} :
                        Added(d) = IF conn[d] = "open"
                                     THEN <<[ev |-> "user_left", user |-> user]>>
                                     ELSE << >>
                   /\ leave \in records'
              ELSE /\ \A d \in Clients \ {c} : Added(d) = << >>
                   /\ records' = records

\* C13 -- leave on disconnect: when a connection closes the server sends
\* user_left {id, name} to every other open connection if and only if the
\* connection had sent join_chat, the identity carried is the one that
\* join_chat carried, and a leave record is persisted; a connection that never
\* joined produces no user_left and no leave record.
LeaveOnDisconnect ==
  /\ [][LeaveStep]_vars
  /\ [](\A r \in records : r.kind = "leave" => \E c \in Clients :
          /\ conn[c] = "closed" /\ SentJoin(c)
          /\ r.id = currentUser[c][1].id /\ r.name = currentUser[c][1].name)

\* a connection that never joined has closed beside an open one with nothing
\* sent, and a connection that had joined has closed and its user_left is on
\* its way to the open one
LeaveOnDisconnectWitness ==
  \E c, j, d \in Clients :
    /\ conn[c] = "closed" /\ ~SentJoin(c)
    /\ conn[j] = "closed" /\ SentJoin(j)
    /\ conn[d] = "open"
    /\ \E i \in DOMAIN downlink[d] :
         downlink[d][i] = [ev |-> "user_left",
                           user |-> [id |-> j, name |-> currentUser[j][1].name]]
    /\ \A i \in DOMAIN downlink[d] : downlink[d][i].ev = "user_left" => downlink[d][i].user.id = j
    /\ \A r \in records : r.kind = "leave" => r.id = j


\* the chat messages among the events of the queue q, in queue order
ChatOf(q) ==
  LET idx == SelectSeq([i \in DOMAIN q |-> i], LAMBDA i : q[i].ev = "chat_message")
  IN [k \in DOMAIN idx |-> q[idx[k]].msg]

\* the emission numbers of the messages of ms that client c built, in order
SeqsFrom(c, ms) ==
  LET own == SelectSeq(ms, LAMBDA m : m.type # "system" /\ m.id[2] = c)
  IN [k \in DOMAIN own |-> own[k].id[3]]

Increasing(q) == \A i, j \in DOMAIN q : i < j => q[i] < q[j]

\* the way from c to d: what d has in its log, what d has still to receive,
\* what the server has still to handle of c
Path(c, d) ==
  SeqsFrom(c, messages[d]) \o SeqsFrom(c, ChatOf(downlink[d]))
    \o SeqsFrom(c, ChatOf(uplink[c]))

IsPrefix(p, q) == Len(p) <= Len(q) /\ SubSeq(q, 1, Len(p)) = p

\* every stroke a client holds from another client has points its drawer
\* emitted, in the drawer's order, and all of them once none is on its way
PointsAsEmitted ==
  \A d \in Clients : \A s \in DOMAIN strokes[d] :
    Owner(s) # d =>
      /\ IsPrefix(strokes[d][s].points, emitted[s].points)
      /\ NoneInFlight(s, d) => strokes[d][s].points = emitted[s].points

\* handling a draw event of stroke s leaves every other stroke as it was
DrawTouchesOneStroke ==
  \A d \in Clients :
    (handleRemoteDrawing(d) /\ Head(downlink[d]).type = "draw") =>
      \A t \in DOMAIN strokes[d] \ {Head(downlink[d]).strokeId} :
        t \in DOMAIN strokes'[d] /\ strokes'[d][t] = strokes[d][t]

\* C15 -- concurrent drawing does not corrupt strokes: whatever the
\* interleaving of two drawers' event streams at a third client, each stroke it
\* holds has exactly the points its own drawer emitted, in the drawer's order,
\* and handling a draw event of one stroke never changes another stroke.
ConcurrentDrawing ==
  /\ [](PointsAsEmitted)
  /\ [][DrawTouchesOneStroke]_vars

\* a third client holds two complete two-point strokes of two drawers whose
\* events it handled interleaved: a draw of each after the start of the other
ConcurrentDrawingWitness ==
  \E d \in Clients : \E s, t \in DOMAIN strokes[d] :
    /\ Owner(s) # d /\ Owner(t) # d /\ Owner(s) # Owner(t)
    /\ Len(strokes[d][s].points) = 2 /\ Len(strokes[d][t].points) = 2
    /\ strokes[d][s].points # strokes[d][t].points
    /\ \E i, j, k, l \in 1..Len(rlog[d]) :
         /\ i < j /\ j < k /\ k < l
         /\ rlog[d][i].type = "start" /\ rlog[d][i].strokeId = s
         /\ rlog[d][j].type = "start" /\ rlog[d][j].strokeId = t
         /\ rlog[d][k].type = "draw" /\ rlog[d][k].strokeId = s
         /\ rlog[d][l].type = "draw" /\ rlog[d][l].strokeId = t


\* ================================================= Server claims, continued
\* the server step that handles a chat_message whose append fails
FailedAppendStep ==
  \A c \in Clients :
    ServerChatMessage(c, FALSE) =>
      /\ store' = store
      /\ \A d \in Clients \ {c} :
           /\ Grew(d)
           /\ Added(d) = IF conn[d] = "open" THEN <<Head(uplink[c])>> ELSE << >>
      /\ downlink'[c] = downlink[c]

\* C16 -- broadcast is not gated on persistence: when the History Store append
\* for a chat_message fails, the server still sends that chat_message to every
\* other open connection (and to them only).
BroadcastNotGated == [][FailedAppendStep]_vars

\* one message has been sent and nothing deleted; the store is empty, so the
\* append failed, and yet two other clients hold the message
BroadcastNotGatedWitness ==
  /\ ops = 1
  /\ store = << >>
  /\ \E c \in Clients : \E d, x \in Clients \ {c} :
       /\ d # x
       /\ \E i \in DOMAIN messages[d] :
            /\ messages[d][i].type = "text" /\ messages[d][i].id[2] = c
            /\ messages[d][i] \in Range(messages[x])


\* a step that is not a clear at c keeps every stroke of c's collection, and
\* its points as a prefix of what the collection holds for it afterwards
PointsGrowStep ==
  \A c \in Clients :
    (ClickClear(c) \/ onClear(c)) \/
      \A s \in DOMAIN strokes[c] :
        /\ s \in DOMAIN strokes'[c]
        /\ IsPrefix(strokes[c][s].points, strokes'[c][s].points)

HeldIds(c) ==
  DOMAIN strokes[c] \cup {currentStroke[c][i].id : i \in DOMAIN currentStroke[c]}

\* the points client c holds for stroke id s
HeldPoints(c, s) ==
  IF s \in DOMAIN strokes[c] THEN strokes[c][s].points ELSE currentStroke[c][1].points

\* the same with the stroke in progress counted as held: this one fails, a
\* second startDrawing before stopDrawing replaces the stroke in progress
HeldGrowStep ==
  \A c \in Clients :
    (ClickClear(c) \/ onClear(c)) \/
      \A s \in HeldIds(c) :
        /\ s \in HeldIds(c)'
        /\ IsPrefix(HeldPoints(c, s), HeldPoints(c, s)')

HeldPointsOnlyGrow == [][HeldGrowStep]_vars


\* what handling a start event makes of the collection
ApplyStartStep ==
  \A c \in Clients :
    (handleRemoteDrawing(c) /\ Head(downlink[c]).type = "start") =>
      LET data == Head(downlink[c])
      IN /\ data.strokeId \in DOMAIN strokes'[c]
         /\ strokes'[c][data.strokeId] =
              [id |-> data.strokeId, points |-> <<data.point>>,
               color |-> data.color, width |-> data.width]
         /\ DOMAIN strokes'[c] = DOMAIN strokes[c] \cup {data.strokeId}
         /\ \A t \in DOMAIN strokes[c] \ {data.strokeId} : strokes'[c][t] = strokes[c][t]

\* C18 -- applyStart: handling a received start event for stroke id s leaves
\* the collection holding a stroke keyed s whose points are the single-point
\* sequence of the event's point, with the event's colour and width, also when
\* s was already held (the last start wins); no other stroke changes.
ApplyStart == [][ApplyStartStep]_vars

\* a second start for an id already held has replaced the stroke by its own
\* single point, colour and width
ApplyStartWitness ==
  \E c \in Clients : \E s \in DOMAIN strokes[c] :
    /\ Len(rlog[c]) = 2
    /\ rlog[c][1].type = "start" /\ rlog[c][1].strokeId = s
    /\ rlog[c][2].type = "start" /\ rlog[c][2].strokeId = s
    /\ rlog[c][2].color # rlog[c][1].color
    /\ rlog[c][2].width # rlog[c][1].width
    /\ rlog[c][2].point # rlog[c][1].point
    /\ strokes[c][s].points = <<rlog[c][2].point>>
    /\ strokes[c][s].color = rlog[c][2].color
    /\ strokes[c][s].width = rlog[c][2].width


\* what handling a draw event for an id the client does not hold does
UnknownDrawStep ==
  \A c \in Clients :
    (/\ handleRemoteDrawing(c)
     /\ Head(downlink[c]).type = "draw"
     /\ Head(downlink[c]).strokeId \notin DOMAIN strokes[c])
      => /\ strokes'[c] = strokes[c]
         /\ currentStroke'[c] = currentStroke[c]

\* C19 -- a draw event for a stroke id that is not in the client's collection
\* (its start never reached the client, or a clear removed the stroke) leaves
\* the whole collection unchanged; no stroke is created by a draw.
UnknownDrawIgnored == [][UnknownDrawStep]_vars

\* a client that had handled the start of s and then cleared has, as its
\* latest event, handled a draw of s: it holds another stroke and not s
UnknownDrawIgnoredWitness ==
  \E c \in Clients : \E s \in gotStart[c] :
    /\ s \notin DOMAIN strokes[c]
    /\ strokes[c] # EmptyMap
    /\ last.op = "remoteDrawing" /\ last.c = c
    /\ last.e.type = "draw" /\ last.e.strokeId = s


\* ================================================== Chat claims, continued
\* what handling a chat_message makes of the log
AppendStep ==
  \A c \in Clients :
    handleMessage(c) =>
      /\ Len(messages'[c]) = Len(messages[c]) + 1
      /\ SubSeq(messages'[c], 1, Len(messages[c])) = messages[c]
      /\ messages'[c][Len(messages'[c])] = Head(downlink[c]).msg

\* C20 -- appendMessage: handling a received chat_message puts it at the end
\* of the local log and leaves the entries before it and their order as they
\* were, whatever its id and timestamp: a message id received twice makes two
\* entries, and an older timestamp does not move a message forward.
AppendMessage == [][AppendStep]_vars

\* the log holds the same message twice, and a message with a later timestamp
\* ahead of one with an earlier timestamp
AppendMessageWitness ==
  \E c \in Clients :
    /\ hist[c] # << >> /\ LastOp(c).op = "chat_message"
    /\ \E i, j \in DOMAIN messages[c] : i < j /\ messages[c][i] = messages[c][j]
    /\ \E i, j \in DOMAIN messages[c] :
         /\ i < j
         /\ "timestamp" \in DOMAIN messages[c][i] /\ "timestamp" \in DOMAIN messages[c][j]
         /\ messages[c][i].timestamp > messages[c][j].timestamp

\* ------------------------------------------------------------------- C21
UserIds(us) == {us[i].id : i \in 1..Len(us)}

\* client c handles the event ev at the head of its downlink in this step
Handles(c, ev) ==
  /\ currentUser[c] # << >>
  /\ conn[c] = "open"
  /\ downlink[c] # << >>
  /\ Head(downlink[c]).ev = ev
  /\ downlink'[c] = Tail(downlink[c])

UnknownLeftStep ==
  \A c \in Clients :
    (Handles(c, "user_left") /\ Head(downlink[c]).user.id \notin UserIds(users[c]))
      => /\ users'[c] = users[c]
         /\ messages'[c] = messages[c]

\* C21: handling user_left for a user id that is not among the client's known
\* users leaves the known users and the message log as they were: no system
\* message is synthesized
UnknownUserLeft == [][UnknownLeftStep]_vars

\* a client that knows one user and holds messages has handled user_left for
\* another id, and both its users and its log are what they were before
UnknownUserLeftWitness ==
  \E c \in Clients :
    /\ hist[c] # << >>
    /\ LET h == hist[c][Len(hist[c])]
       IN /\ h.op = "user_left"
          /\ h.users # << >>
          /\ h.msgs # << >>
          /\ h.arg.id \notin UserIds(h.users)
          /\ users[c] = h.users
          /\ messages[c] = h.msgs

\* ------------------------------------------------------------------- C22
KnownUsersStay ==
  \A c \in Clients : UserIds(users[c]) \subseteq UserIds(users'[c])

\* C22: once a user id is among a client's known users it stays there in every
\* later state, whatever events the client handles
KnownUsersNeverRemoved == [][KnownUsersStay]_vars

\* the same for the steps that handle a user_left
LeftKeepsUser ==
  [][\A c \in Clients : Handles(c, "user_left")
        => /\ UserIds(users'[c]) = UserIds(users[c])
           /\ \A i \in 1..Len(users[c]) :
                users[c][i].id = Head(downlink[c]).user.id => ~users'[c][i].isOnline]_vars

\* a known user has left and is still listed, offline
LeftKeepsUserWitness ==
  \E c \in Clients :
    /\ hist[c] # << >>
    /\ hist[c][Len(hist[c])].op = "user_left"
    /\ \E i \in 1..Len(users[c]) :
         users[c][i].id = hist[c][Len(hist[c])].arg.id /\ ~users[c][i].isOnline
\* ------------------------------------------------------------------- C23
\* connection c has joined and is still connected
Joined(c) == conn[c] = "open" /\ session[c] # << >>

\* no join is still under way: no join_chat unhandled, no user_joined undelivered
JoinsDelivered ==
  \A c \in Clients :
    /\ \A i \in DOMAIN uplink[c] : uplink[c][i].ev # "join_chat"
    /\ \A i \in DOMAIN downlink[c] : downlink[c][i].ev # "user_joined"

KnowsOnline(a, b) ==
  \E i \in 1..Len(users[a]) :
    /\ users[a][i].id = session[b][1].id
    /\ HasTruthy(users[a][i], "isOnline", FALSE)

Knows(a, b) == session[b][1].id \in UserIds(users[a])

\* C23: whenever two clients have both joined and are both still connected,
\* and every join broadcast has been delivered, each has the other among its
\* known users with isOnline = true, whichever of them joined first
PresenceCompleteness ==
  \A a, b \in Clients :
    (a # b /\ Joined(a) /\ Joined(b) /\ JoinsDelivered)
      => KnowsOnline(a, b) /\ KnowsOnline(b, a)

\* ------------------------------------------------------------------- C24
\* client c emits a chat_message in this step
SendsChat(c) ==
  /\ Len(uplink'[c]) = Len(uplink[c]) + 1
  /\ uplink'[c][Len(uplink'[c])].ev = "chat_message"

\* C24: when a client sends a text or file chat message, the message is in the
\* sender's own log once the send action completes
OptimisticLocalAppend ==
  [][\A c \in Clients :
       SendsChat(c) => uplink'[c][Len(uplink'[c])].msg \in Range(messages'[c])]_vars

\* the weaker half that the join broadcast does give: of two joined clients,
\* at least one has the other among its users
OneKnowsTheOther ==
  \A a, b \in Clients :
    (a # b /\ Joined(a) /\ Joined(b) /\ JoinsDelivered) => Knows(a, b) \/ Knows(b, a)
\* ------------------------------------------------------------------- C25
\* the client that built the chat message with this id
Owner2(id) == id[2]

\* the ids a client gives the chat messages it builds
ChatIds == {<<k, c, n>> : k \in {"msg", "file"}, c \in Clients, n \in 1..MaxChatOps}

\* the chat_message with this id is emitted and not yet handled by the server
Emitted(id) ==
  \E i \in DOMAIN uplink[Owner2(id)] :
    /\ uplink[Owner2(id)][i].ev = "chat_message"
    /\ uplink[Owner2(id)][i].msg.id = id

InLog(d, id) == \E i \in DOMAIN messages[d] : messages[d][i].id = id

\* d shows the Chat tab and is connected
ChatOpen(d) == currentUser[d] # << >> /\ conn[d] = "open"

\* C25: every chat_message a connected client emits is eventually appended to
\* the log of every other chat client that remains connected, whether or not
\* its persistence succeeds
ChatDeliveryLiveness ==
  \A id \in ChatIds : \A d \in Clients \ {Owner2(id)} :
    (Emitted(id) /\ ChatOpen(d)) ~> (InLog(d, id) \/ ~ChatOpen(d))

\* a message of A that the History Store does not hold is in the logs of two
\* other connected clients
ChatDeliveryWitness ==
  \E id \in ChatIds :
    /\ Owner2(id) = "A"
    /\ \A i \in DOMAIN store : store[i].id # id
    /\ \A d \in Clients \ {"A"} : ChatOpen(d) /\ InLog(d, id)
\* ------------------------------------------------------------------- C26
DeleteFailedText == "Failed to delete message. Please try again."

\* the delete requests of c answered in this step
Answered(c) == deleting[c] \ deleting'[c]

\* the request for message m at c was answered ok in this step: the handler
\* went on after the await
Acknowledged(c, m) ==
  /\ hist'[c] # hist[c]
  /\ hist'[c][Len(hist'[c])].op = "deleteResolved"
  /\ hist'[c][Len(hist'[c])].arg = m

DeleteOnAckStep ==
  \A c \in Clients :
    /\ Answered(c) = {} => messages'[c] = messages[c]
    /\ \A q \in Answered(c) :
         IF Acknowledged(c, q.message)
           THEN /\ messages'[c] = SelectSeq(messages[c], LAMBDA m : m.id # q.message.id)
                /\ alerts'[c] = alerts[c]
           ELSE /\ messages'[c] = messages[c]
                /\ alerts'[c] = Append(alerts[c], DeleteFailedText)

\* the request made for a message: deleteFile with the fileId for a file
\* message that has one, deleteMessage with the id otherwise
RightRequest ==
  \A c \in Clients : \A q \in deleting[c] :
    IF q.message.type = "file" /\ "fileId" \in DOMAIN q.message
      THEN q.request = [fn |-> "deleteFile", arg |-> q.message.fileId]
      ELSE q.request = [fn |-> "deleteMessage", arg |-> q.message.id]

\* C26: a message leaves the deleting client's log exactly in the step in which
\* its delete request (deleteFile for a file message with a fileId, deleteMessage
\* otherwise) is answered ok; when the request fails the log is unchanged and
\* the failure is shown to the user
DeleteOnAck == [](RightRequest) /\ [][DeleteOnAckStep]_vars

\* a client has had one delete acknowledged and one rejected: the first
\* message is gone from its log, the second is still there, and one alert
\* was shown
DeleteOnAckWitness ==
  \E c \in Clients :
    /\ Len(hist[c]) = 1
    /\ hist[c][1].op = "deleteResolved"
    /\ Len(hist[c][1].msgs) = 2
    /\ Len(messages[c]) = 1
    /\ messages[c][1].id # hist[c][1].arg.id
    /\ deleting[c] = {}
    /\ alerts[c] = <<DeleteFailedText>>
    /\ ops = 2

\* ------------------------------------------------------------------- C27
\* the delete requests of c made in this step
Requested(c) == deleting'[c] \ deleting[c]

DeleteAffordanceStep ==
  \A c \in Clients : \A q \in Requested(c) :
    /\ q.message \in Range(messages[c])
    /\ q.message.sender = currentUser[c][1].name
    /\ q.message.type # "system"

\* C27: a delete is initiated only on a message whose sender is the current
\* user's name and whose type is not system; for a system message or another
\* user's message no request is made and the message stays in the log
DeleteAffordance ==
  /\ [][DeleteAffordanceStep]_vars
  /\ [][\A c \in Clients : \A i \in DOMAIN messages[c] :
          (messages[c][i].type = "system" \/ messages[c][i].sender # currentUser[c][1].name)
            => /\ \A q \in deleting'[c] : q.message # messages[c][i]
               /\ messages[c][i] \in Range(messages'[c])]_vars

\* a client whose log holds another user's message and a message under its
\* own name has a delete request pending for the latter
DeleteAffordanceWitness ==
  \E c \in Clients :
    /\ Len(messages[c]) = 2
    /\ messages[c][1].sender # currentUser[c][1].name
    /\ messages[c][1].type # "system"
    /\ messages[c][2].sender = currentUser[c][1].name
    /\ \E q \in deleting[c] : q.message = messages[c][2]
\* ------------------------------------------------------------------- C28
\* t is s without its leading and trailing white space
IsTrimmed(t, s) ==
  \E i \in 1..(Len(s) + 1) : \E j \in 0..Len(s) :
    /\ t = SubSeq(s, i, j)
    /\ \A k \in 1..Len(s) : (k < i \/ k > j) => s[k] \in WhiteSpace
    /\ t # << >> => (t[1] \notin WhiteSpace /\ t[Len(t)] \notin WhiteSpace)

SubmitStep ==
  input'.submits = input.submits + 1 =>
    IF ~input.disabled /\ \E k \in 1..Len(input.newMessage) :
                            input.newMessage[k] \notin WhiteSpace
      THEN /\ Len(input'.sent) = Len(input.sent) + 1
           /\ SubSeq(input'.sent, 1, Len(input.sent)) = input.sent
           /\ IsTrimmed(input'.sent[Len(input'.sent)], input.newMessage)
           /\ input'.newMessage = << >>
      ELSE /\ input'.sent = input.sent
           /\ input'.newMessage = input.newMessage

\* C28: submitting the form calls onSendMessage exactly once, with the trimmed
\* text, if and only if the trimmed text is not empty and the input is not
\* disabled; otherwise it is not called.  The text is cleared exactly when a
\* message was sent
SubmitGuard == [][SubmitStep]_vars

\* of two submissions one has called onSendMessage, with "a"; the input is
\* disabled now and still holds the text typed before, which a submission
\* would not send
SubmitGuardWitness ==
  /\ input.submits = 2
  /\ input.sent = <<<<"a">>>>
  /\ input.disabled
  /\ input.newMessage = <<"a", " ">>
\* ------------------------------------------------------------------- C29
Settled(call) == call.settled # "awaiting"

RejectsNotOk(call) ==
  ~call.response[1].ok =>
    /\ call.settled = "rejected"
    /\ call.value = <<IF call.fn = "uploadFile" THEN "Upload failed: " ELSE "Delete failed: ",
                      call.response[1].statusText>>

OneRequest(call) == call.fetches = 1

\* C29 as stated -- each of uploadFile, deleteFile and deleteMessage rejects
\* with an error whenever the response is not ok and resolves whenever it is
\* ok, uploadFile with the response body; each call makes exactly one request
OutOfBandCallsAsStated ==
  \A k \in DOMAIN api :
    /\ OneRequest(api[k])
    /\ Settled(api[k]) =>
         /\ RejectsNotOk(api[k])
         /\ api[k].response[1].ok =>
              /\ api[k].settled = "resolved"
              /\ api[k].fn = "uploadFile" => api[k].value = api[k].response[1].body[2]

\* C29: each of uploadFile, deleteFile and deleteMessage rejects with an error
\* whenever the response is not ok; deleteFile and deleteMessage resolve
\* whenever it is ok; uploadFile resolves, with the value of the response
\* body, whenever the response is ok and its body is JSON, and rejects when
\* the body of an ok response is not JSON; each call makes exactly one request
OutOfBandCalls ==
  \A k \in DOMAIN api :
    /\ OneRequest(api[k])
    /\ Settled(api[k]) =>
         /\ RejectsNotOk(api[k])
         /\ (api[k].response[1].ok /\ api[k].fn # "uploadFile") =>
              api[k].settled = "resolved"
         /\ (api[k].response[1].ok /\ api[k].fn = "uploadFile") =>
              IF api[k].response[1].body[1] = "json"
                THEN /\ api[k].settled = "resolved"
                     /\ api[k].value = api[k].response[1].body[2]
                ELSE api[k].settled = "rejected"

\* an uploadFile call has resolved with the body of its ok response and a
\* deleteMessage call has rejected on a response that is not ok
OutOfBandCallsWitness ==
  /\ Len(api) = 2
  /\ api[1].fn = "uploadFile" /\ api[1].settled = "resolved"
  /\ api[1].value = UploadResult(2)
  /\ api[2].fn = "deleteMessage" /\ api[2].settled = "rejected"
  /\ api[2].value = <<"Delete failed: ", "Not Found">>
\* ------------------------------------------------------------------- C30
UploadFailedText == "Failed to upload file. Please try again."

\* the upload of c settled in this step
UploadSettled(c) == uploads'[c] = uploads[c] - 1

\* the file ids of the uploads of c that have resolved
Uploaded(c) == {results[c][k].file_id : k \in DOMAIN results[c]}

\* a file message is emitted only in the step in which an upload of the same
\* client resolves, and it carries that upload's result
FileSendStep ==
  \A c \in Clients :
    (SendsChat(c) /\ uplink'[c][Len(uplink'[c])].msg.type = "file") =>
      /\ UploadSettled(c)
      /\ Len(results'[c]) = Len(results[c]) + 1
      /\ CarriesResult(uplink'[c][Len(uplink'[c])].msg, results'[c][Len(results'[c])])
      /\ alerts'[c] = alerts[c]

\* a failed upload emits nothing, leaves the log alone and resets the flag
UploadFailedStep ==
  \A c \in Clients :
    (UploadSettled(c) /\ results'[c] = results[c]) =>
      /\ uplink' = uplink
      /\ downlink' = downlink
      /\ messages' = messages
      /\ ~isUploading'[c]
      /\ alerts'[c] = Append(alerts[c], UploadFailedText)

\* no file message has been emitted whose upload has not resolved
FileSentAfterUpload ==
  \A c \in Clients : \A i \in DOMAIN uplink[c] :
    (uplink[c][i].ev = "chat_message" /\ uplink[c][i].msg.type = "file")
      => uplink[c][i].msg.fileId \in Uploaded(c)

\* C30: a chat_message of type file is emitted only once its upload has
\* resolved, never before; when the upload fails no chat_message is emitted,
\* the log is unchanged and isUploading is false again
FileSendGated ==
  /\ [](FileSentAfterUpload)
  /\ [][FileSendStep]_vars
  /\ [][UploadFailedStep]_vars

\* a client has had one upload resolve and one fail: it has emitted one file
\* message, shown one alert, and isUploading is false
FileSendGatedWitness ==
  \E c \in Clients :
    /\ Len(results[c]) = 1
    /\ alerts[c] = <<UploadFailedText>>
    /\ uploads[c] = 0
    /\ ~isUploading[c]
    /\ msgSeq[c] = 2

\* ============================================== Whiteboard claims, concluded
\* the stroke applyStart(strokeId, point, color, width) inserts
StartStroke(e) ==
  [id |-> e.strokeId, points |-> <<e.point>>, color |-> e.color, width |-> e.width]

\* client c's handler has applied the event e as its operation specifies: a
\* start inserts its stroke, a draw appends its point to the stroke it names
\* (or names a stroke c does not hold, and changes nothing), an end changes
\* nothing
AppliedAsSpecified(c, e) ==
  /\ "type" \in DOMAIN e
  /\ CASE e.type = "start" ->
            /\ {"point", "color", "width"} \subseteq DOMAIN e
            /\ strokes'[c] = MapSet(strokes[c], e.strokeId, StartStroke(e))
       [] e.type = "draw" ->
            IF e.strokeId \in DOMAIN strokes[c]
              THEN /\ "point" \in DOMAIN e
                   /\ strokes'[c] = [strokes[c] EXCEPT ![e.strokeId].points =
                                                          Append(@, e.point)]
              ELSE strokes'[c] = strokes[c]
       [] OTHER -> strokes'[c] = strokes[c]

NoSilentDropStep ==
  \A c \in Clients :
    (/\ conn[c] = "open" /\ downlink[c] # << >>
     /\ Head(downlink[c]).ev = "drawing"
     /\ downlink'[c] = Tail(downlink[c])
     /\ last'.op = "remoteDrawing" /\ last'.c = c)
    => \/ last'.threw
       \/ AppliedAsSpecified(c, Head(downlink[c]))

\* C31: every drawing event delivered to a client is either applied to the
\* stroke map as its operation specifies or makes the handler throw; no start
\* or draw event is discarded without effect and without error, except a draw
\* for an unknown stroke
NoSilentDrop == [][NoSilentDropStep]_vars

\* ================================================= Server claims, concluded
\* the step starts the handling of an event of connection b
StartsHandling(b) == uplink[b] # << >> /\ uplink'[b] = Tail(uplink[b])

\* the step is the relay of b's chat_message
RelaysChat(b) ==
  /\ pending[b] # << >> /\ pending[b][1].ev = "chat_message"
  /\ pending'[b] = << >>

\* the step is the answer to c's join_chat
AnswersJoin(c) == c \in Joining /\ pending'[c] = << >>

\* while a join awaits its query the server starts no other connection's event
NothingDuringJoinStep ==
  \A c \in Joining : \A b \in Clients \ {c} : ~StartsHandling(b)

\* no chat_message whose handling started during c's join is relayed to c
\* while c's recent_messages is still to be sent
SnapshotFirstStep ==
  \A b \in Clients :
    RelaysChat(b) => \A c \in pending[b][1].joining \cap Others(b) : c \notin Joining

AnswerStep ==
  \A c \in Clients :
    AnswersJoin(c) =>
      /\ Added(c) = <<[ev |-> "recent_messages", list |-> pending[c][1].list]>>
      /\ \A d \in Others(c) :
           Added(d) = <<[ev |-> "user_joined", user |-> pending[c][1].user]>>

\* a chat_message relayed to c when no join of c awaits its query sits behind
\* every recent_messages on c's channel
RelayBehindSnapshotStep ==
  \A b \in Clients :
    RelaysChat(b) =>
      \A c \in Others(b) \ Joining :
        /\ downlink'[c] # << >>
        /\ downlink'[c][Len(downlink'[c])] = pending[b][1].e
        /\ \A i \in 1..Len(downlink[c]) : downlink'[c][i] = downlink[c][i]

Quiescent ==
  \A c \in Clients : uplink[c] = << >> /\ pending[c] = << >> /\ downlink[c] = << >>

\* the ids of the chat messages client b has sent
SentBy(b) == {<<"msg", b, n>> : n \in 1..(msgSeq[b] - 1)}

\* every client that has joined holds every chat message the others have sent
\* (in SpecJoin every connection is open throughout, so each of them was
\* relayed to it)
HoldsAllRelayed ==
  Quiescent =>
    \A c \in Clients :
      session[c] # << >> => \A b \in Clients \ {c} : \A id \in SentBy(b) : InLog(c, id)

\* applying recent_messages wipes no chat message the log holds
SnapshotKeepsStep ==
  \A c \in Clients :
    (Receives(c, "recent_messages") /\ downlink'[c] = Tail(downlink[c])) =>
      \A i \in DOMAIN messages[c] :
        messages[c][i].type # "system" => InLog(c, messages[c][i].id)'

\* C33: at a client that stays connected, every chat message of another client
\* that was relayed to it is in its log once it has applied recent_messages
\* and everything in flight has been delivered; a chat_message appended
\* before the snapshot arrives is not wiped by it
NoMessageLost == [](HoldsAllRelayed) /\ [][SnapshotKeepsStep]_vars

\* C34: with every relayed event delivered once (no reconnect, no replay),
\* every chat message id appears at most once in each client's log, also for a
\* message that is in the client's recent_messages snapshot and is broadcast
\* around its join
NoDuplicateEntries ==
  \A c \in Clients : \A i, j \in DOMAIN messages[c] :
    (i # j /\ messages[c][i].type # "system") => messages[c][i].id # messages[c][j].id

\* ================================================ Whiteboard claims, the end
\* no stroke is in progress anywhere
GesturesEnded == \A c \in Clients : currentStroke[c] = << >>

\* no drawing or clear event is still to be relayed or handled
AllDelivered == \A c \in Clients : uplink[c] = << >> /\ downlink[c] = << >>

\* the clients of InitWB that are connected from the start
ConnectedThroughout == {"A", "B"}

\* C35: once all gestures have ended and every drawing / clear event in flight
\* has been delivered, the clients that were connected throughout hold the
\* same stroke collection (same ids, same points)
WhiteboardConvergence ==
  (GesturesEnded /\ AllDelivered) =>
    \A a, b \in ConnectedThroughout : strokes[a] = strokes[b]

\* ===================================================== SocketService claims
\* the sockets the service created whose transport session is open or is
\* being opened
LiveSockets == {i \in DOMAIN sockets : sockets[i].state \in {"open", "connecting"}}

\* a step of SocketService.disconnect()
DisconnectStep == called' = << >> /\ (socket # socket' \/ sockets # sockets' \/ called # << >>)

\* with no socket held, joinChat / sendMessage emit on no socket
SilentWithoutSocket ==
  socket = 0 => \A i \in DOMAIN sockets : i \in DOMAIN sockets' => sockets'[i].sent = sockets[i].sent

\* C37: after any sequence of connect() and disconnect() calls, among them
\* connect() called again while the previous socket is still connecting, at
\* most one socket the service created is open or connecting; after
\* disconnect() the service holds no socket, and joinChat / sendMessage emit
\* nothing while it holds none
OneTransportSession ==
  /\ [](Cardinality(LiveSockets) <= 1)
  /\ [][(DisconnectStep => socket' = 0) /\ SilentWithoutSocket]_vars

\* the number of join_chat events emitted on socket i
Joins(i) == Cardinality({k \in DOMAIN emits[i] : emits[i][k] = "join_chat"})

\* on every socket, the first event emitted is the one join_chat
JoinFirst ==
  \A i \in 1..MaxSockets : emits[i] # << >> => (emits[i][1] = "join_chat" /\ Joins(i) = 1)

\* once Chat's effect has run, the socket the service holds is the one the
\* hook handed to Chat and carries Chat's join_chat
JoinedOnHeldSocket ==
  (hooks[HookNamed].mounted /\ hooks[HookNamed].currentUser) =>
    (socket = hooks[HookNamed].socket /\ socket # 0 /\ Joins(socket) = 1)

\* a handleSendMessage call made while currentUser is still null
AttemptWithoutIdentity ==
  /\ hooks[HookNamed].mounted /\ hooks'[HookNamed].mounted
  /\ hooks'[HookNamed].attempts = hooks[HookNamed].attempts + 1
  /\ ~hooks[HookNamed].currentUser

\* C36: on every socket of the client, join_chat is emitted before any
\* chat_message and exactly once per socket that Chat was handed; a send
\* attempted while Chat has no current user identity emits nothing
JoinPrecedesChat ==
  /\ [](JoinFirst /\ JoinedOnHeldSocket)
  /\ [][AttemptWithoutIdentity => emits' = emits]_vars

\* Chat joined and sent on a second socket after a remount, and one of its
\* two send attempts came before its identity was set
JoinPrecedesChatWitness ==
  /\ socket = 2
  /\ emits[1] # << >>
  /\ emits[2] = <<"join_chat", "chat_message">>
  /\ hooks[HookNamed].attempts = 2

\* isConnected of instance h equals the connected flag of the socket the
\* instance was handed
Tracks(h) == hooks[h].isConnected = connected(hooks[h].socket)

\* C38: once the hook has mounted and every connect / disconnect event has
\* been handled, isConnected equals the socket's connected state, also when
\* connect() returned a shared socket that was already connected, so the chat
\* input (disabled = !isConnected) is enabled exactly when the transport is
\* connected
IndicatorTracksTransport == \A h \in Hooks : hooks[h].mounted => Tracks(h)

\* ================================================== Chat claims, known users
\* at most one entry per user id
OnePerId(us) == \A i, j \in DOMAIN us : i # j => us[i].id # us[j].id

\* user_joined for an id that is already known: the entry of that id is set
\* online and keeps its stored name, every other entry and the number of
\* entries stay as they were
RepeatedJoinStep ==
  \A c \in Clients :
    (Handles(c, "user_joined") /\ Head(downlink[c]).user.id \in UserIds(users[c]))
      => /\ Len(users'[c]) = Len(users[c])
         /\ \A i \in DOMAIN users[c] :
              IF users[c][i].id = Head(downlink[c]).user.id
                THEN /\ users'[c][i].id = users[c][i].id
                     /\ users'[c][i].name = users[c][i].name
                     /\ users'[c][i].isOnline = TRUE
                ELSE users'[c][i] = users[c][i]

\* C39: after any sequence of user_joined and user_left events the known
\* users hold at most one entry per user id, and a repeated user_joined for a
\* known id only sets isOnline to true: no entry is added and the stored name
\* stays
KnownUsersUnique ==
  /\ [](\A c \in Clients : OnePerId(users[c]))
  /\ [][RepeatedJoinStep]_vars

\* a client that knows two users has just handled a user_joined for one of
\* them, gone offline before, that carried another name than the stored one
KnownUsersUniqueWitness ==
  \E c \in Clients :
    /\ Len(hist[c]) >= 2 /\ LastOp(c).op = "user_joined"
    /\ hist[c][Len(hist[c]) - 1].op = "user_left"
    /\ hist[c][Len(hist[c]) - 1].arg.id = LastOp(c).arg.id
    /\ Len(users[c]) = 2
    /\ \E i \in DOMAIN users[c] :
         /\ users[c][i].id = LastOp(c).arg.id
         /\ users[c][i].name # LastOp(c).arg.name
         /\ users[c][i].isOnline = TRUE

====
